---- MODULE Spec2Model ----
(***************************************************************************)
(* Model of the resumable grid-search run manager of the ORB backtester:   *)
(* BacktestRunner (src/src/backtest/runner.py) driving ResultsDatabase     *)
(* (src/src/backtest/results_db.py).                                       *)
(*                                                                         *)
(* The durable state is the Result Store (tables backtest_runs,            *)
(* backtest_params, backtest_metrics, backtest_trades, backtest_progress). *)
(* Every ResultsDatabase method ends with its own commit, so every method  *)
(* call of the orchestrator is one atomic step of the model and the        *)
(* process can be interrupted or killed between any two of them.           *)
(***************************************************************************)
EXTENDS Integers, Sequences, FiniteSets, Bags, TLC

\* ---------------------------------------------------------------- bounds
MaxStocks == 2          \* instruments of the run: 1..n for some n <= MaxStocks
MaxWorkers == 2         \* --workers W, 1 <= W <= MaxWorkers
MaxInvocations == 2     \* run() invocations on the run (the first and resumes)
MaxRuns == 3            \* invocations in the several-runs specification

\* The parameter list of the (fixed) configuration: param_id 1 and 2.
params_list == <<1, 2>>

None == -1              \* Python's None for an optional integer argument or variable

VARIABLES
    \* --- configuration, fixed over all invocations of the run
    stocks,             \* self.stocks: list of instruments
    hasBars,            \* instrument -> whether the Bar Store holds bars for it
    workers,            \* self.workers
    store_trades,       \* self.store_trades
    \* --- Result Store (durable)
    runs,               \* backtest_runs: run_id = index (AUTOINCREMENT)
    params,             \* backtest_params: set of <<param_id, param_json>>
    metrics,            \* backtest_metrics: multiset of rows
    trades,             \* backtest_trades: multiset of rows
    progress,           \* backtest_progress: sequence of rows, rowid = index
    \* --- orchestrator process (volatile)
    pc,                 \* position of the orchestrator in run()
    resume_run_id,      \* self.resume_run_id
    run_id,             \* local run_id of run()
    lastrowid,          \* self.cur.lastrowid inside create_run
    stocks_to_process,  \* local list of run()
    idx,                \* loop index of the serial loop / of the mark-all loop
    stocks_done,        \* local counter of run()
    completed,          \* local counter of _process_stocks_parallel
    result,             \* the payload being persisted
    \* --- worker pool (volatile)
    nextTask,           \* index of the next task imap_unordered hands out
    inflight,           \* tasks (indices of stocks_to_process) being executed
    results,            \* payloads finished and not yet received
    errors,             \* instruments whose task raised, not yet received
    \* --- observations of the current invocation (history, reset when it ends)
    dispatched,         \* instrument -> worker tasks started
    completedAtStart,   \* instruments 'completed' when the invocation looked
    inflightAtIntr,     \* instruments whose task was executing when the
                        \* interrupt arrived
    failed,             \* instruments whose exception reached the orchestrator
    outOfOrder,         \* a payload was received before that of an instrument
                        \* dispatched earlier
    \* --- history of the run
    invocations,        \* number of run() invocations started
    retval,             \* how the last invocation ended
    everInterrupted,    \* some invocation was interrupted or killed
    \* --- a direct call of a library function and what it returned
    call,               \* the last call: [op |-> name, ...arguments]
    ret,                \* its result
    \* --- the bar downloader and its rate limiter
    limits,             \* [calls_per_minute, calls_per_day] of the RateLimiter
    now,                \* time.time(), in ticks
    today,              \* date.today(), a day number
    timestamps,         \* RateLimiter._call_timestamps
    usage,              \* api_usage: day -> calls_made
    download_progress,  \* stock -> [status, done] (done: chunks stored)
    dl                  \* the downloader session: its position and locals

cfgVars == <<stocks, hasBars, workers, store_trades>>
dbVars == <<runs, params, metrics, trades, progress>>
idVars == <<resume_run_id, run_id, lastrowid>>
localVars == <<stocks_to_process, idx, stocks_done, completed, result>>
poolVars == <<nextTask, inflight, results, errors>>
obsVars == <<dispatched, completedAtStart, inflightAtIntr, failed, outOfOrder>>
histVars == <<invocations, retval, everInterrupted>>
apiVars == <<call, ret>>
\* The variables of the other components, which the orchestrator leaves alone.
dlVars == <<limits, now, today, timestamps, usage, download_progress, dl>>
otherVars == <<apiVars, dlVars>>
vars == <<cfgVars, dbVars, pc, idVars, localVars, poolVars, obsVars, histVars,
          otherVars>>

NoCall == [op |-> "none"]

ApiIdle == call = NoCall /\ ret = NoCall

\* ------------------------------------------ rate limiter and bar downloader
\* Time is counted in ticks: WindowTicks stands for the 60 seconds of the
\* sliding window, BufferTicks for the 0.5 s safety buffer of the sleep.
WindowTicks == 3
BufferTicks == 1
MAX_RETRIES == 3
MaxTime == 6
MaxDay == 1
MaxLimit == 2
DlStocks == 2
DlChunks == 2
MaxSessions == 2

\* No session has run: every stock pending, no call made.
DlIdle ==
    /\ now = 0
    /\ today = 0
    /\ timestamps = <<>>
    /\ usage = [d \in 0..MaxDay |-> 0]
    /\ download_progress =
          [s \in 1..DlStocks |->
              [status |-> "pending", done |-> 0, total_api_calls |-> 0]]
    /\ dl = [pc |-> "idle", queue |-> <<>>, attempt |-> 0, result |-> "none",
             waited |-> FALSE, wakeAt |-> 0, session |-> 0, calls_total |-> 0,
             fetched |-> [s \in 1..DlStocks |-> 0]]

OthersIdle ==
    /\ ApiIdle
    /\ DlIdle
    /\ limits = [calls_per_minute |-> 1, calls_per_day |-> 1]


\* ---------------------------------------------------------------- helpers
Range(s) == {s[i] : i \in 1..Len(s)}

\* ---------------------------------------------------------------- worker
\* Number of trades the kernel finds for (param, instrument): a fixed function
\* of the bars, 0 for some pairs and 1 for others.
NTrades(p, s) == (p + s) % 2

\* The metrics the calculator derives from that trade list.
Metric(p, s) == 10 * NTrades(p, s) + 1

RECURSIVE WorkerMetricsRows(_, _)
WorkerMetricsRows(ps, s) ==
    IF ps = <<>> THEN <<>>
    ELSE <<<<Head(ps), s, Metric(Head(ps), s)>>>> \o WorkerMetricsRows(Tail(ps), s)

RECURSIVE WorkerTradeRows(_, _)
WorkerTradeRows(ps, s) ==
    IF ps = <<>> THEN <<>>
    ELSE [d \in 1..NTrades(Head(ps), s) |-> <<Head(ps), s, d>>]
         \o WorkerTradeRows(Tail(ps), s)

RECURSIVE WorkerTotalTrades(_, _)
WorkerTotalTrades(ps, s) ==
    IF ps = <<>> THEN 0 ELSE NTrades(Head(ps), s) + WorkerTotalTrades(Tail(ps), s)

\* _process_stock_worker: the payload for one instrument.
EmptyPayload(s) ==
    [stock_code |-> s, metrics_rows |-> <<>>, trade_rows |-> <<>>,
     total_trades |-> 0, combos_tested |-> 0]

process_stock_worker(s, bars, st) ==
    IF ~bars
    THEN EmptyPayload(s)
    ELSE [stock_code |-> s,
          metrics_rows |-> WorkerMetricsRows(params_list, s),
          trade_rows |-> IF st THEN WorkerTradeRows(params_list, s) ELSE <<>>,
          total_trades |-> WorkerTotalTrades(params_list, s),
          combos_tested |-> Len(params_list)]

NoResult == [stock_code |-> 0, metrics_rows |-> <<>>, trade_rows |-> <<>>,
             total_trades |-> 0, combos_tested |-> 0]

\* ---------------------------------------------------------------- Result Store
\* backtest_metrics and backtest_trades are multisets of rows (the
\* autoincrement id column, which no query of the orchestrator reads, is left
\* out).
\* backtest_trades row: <<run_id, param_id, stock_code, day>>, no uniqueness:
\* a plain INSERT per row.
RECURSIVE InsertTrades(_, _)
InsertTrades(tbl, rows) ==
    IF rows = <<>> THEN tbl
    ELSE InsertTrades(tbl (+) SetToBag({Head(rows)}), Tail(rows))

insert_trades_batch(tbl, rid, trade_rows) ==
    IF trade_rows = <<>> THEN tbl
    ELSE InsertTrades(tbl,
            [i \in 1..Len(trade_rows) |-> <<rid>> \o trade_rows[i]])

\* backtest_metrics row: <<run_id, param_id, stock_code, metric>>,
\* UNIQUE(run_id, param_id, stock_code).
MetricsKey(row) == <<row[1], row[2], row[3]>>

\* One INSERT OR IGNORE INTO backtest_metrics.
InsertOrIgnoreMetricsRow(tbl, r) ==
    IF \E e \in BagToSet(tbl) : MetricsKey(e) = MetricsKey(r)
    THEN tbl
    ELSE tbl (+) SetToBag({r})

RECURSIVE InsertOrIgnoreMetrics(_, _)
InsertOrIgnoreMetrics(tbl, rows) ==
    IF rows = <<>> THEN tbl
    ELSE InsertOrIgnoreMetrics(InsertOrIgnoreMetricsRow(tbl, Head(rows)), Tail(rows))

\* Faulty variant: the uniqueness key leaves out stock_code.
RECURSIVE InsertOrIgnoreByParam(_, _)
InsertOrIgnoreByParam(tbl, rows) ==
    IF rows = <<>> THEN tbl
    ELSE LET r == Head(rows)
             dup == \E e \in BagToSet(tbl) : e[1] = r[1] /\ e[2] = r[2]
         IN InsertOrIgnoreByParam(IF dup THEN tbl ELSE tbl (+) SetToBag({r}),
                                  Tail(rows))

insert_metrics_batch_keyWithoutStock(tbl, rid, metrics_rows) ==
    IF metrics_rows = <<>> THEN tbl
    ELSE InsertOrIgnoreByParam(tbl,
            [i \in 1..Len(metrics_rows) |-> <<rid>> \o metrics_rows[i]])

\* Faulty variant: a plain INSERT on a table without the UNIQUE constraint.
insert_metrics_batch_plain(tbl, rid, metrics_rows) ==
    IF metrics_rows = <<>> THEN tbl
    ELSE InsertTrades(tbl,
            [i \in 1..Len(metrics_rows) |-> <<rid>> \o metrics_rows[i]])

\* Faulty variant: INSERT OR REPLACE, the row that holds the key is replaced.
RECURSIVE InsertOrReplaceMetrics(_, _)
InsertOrReplaceMetrics(tbl, rows) ==
    IF rows = <<>> THEN tbl
    ELSE LET r == Head(rows)
             kept == {e \in BagToSet(tbl) : MetricsKey(e) # MetricsKey(r)}
         IN InsertOrReplaceMetrics(SetToBag(kept \cup {r}), Tail(rows))

insert_metrics_batch_replace(tbl, rid, metrics_rows) ==
    IF metrics_rows = <<>> THEN tbl
    ELSE InsertOrReplaceMetrics(tbl,
            [i \in 1..Len(metrics_rows) |-> <<rid>> \o metrics_rows[i]])

insert_metrics_batch(tbl, rid, metrics_rows) ==
    IF metrics_rows = <<>> THEN tbl
    ELSE InsertOrIgnoreMetrics(tbl,
            [i \in 1..Len(metrics_rows) |-> <<rid>> \o metrics_rows[i]])

\* StrategyParams objects are numbered 1..NParamObjects.  param_id() is a
\* truncated md5 of the fields, so two objects can share an id: object 3
\* shares the id of object 1.  to_json() is injective.
NParamIds == 2
NParamObjects == 3
param_id(p) == ((p - 1) % NParamIds) + 1
to_json(p) == p

\* backtest_params row: <<param_id, param_json>>, PRIMARY KEY param_id; the
\* other columns are functions of param_json.  One INSERT OR IGNORE per
\* object.
RECURSIVE insert_params_batch(_, _)
insert_params_batch(tbl, ps) ==
    IF ps = <<>> THEN tbl
    ELSE LET r == <<param_id(Head(ps)), to_json(Head(ps))>>
         IN insert_params_batch(IF \E e \in tbl : e[1] = r[1] THEN tbl
                                ELSE tbl \cup {r},
                                Tail(ps))

\* backtest_progress row, PRIMARY KEY (run_id, stock_code).
ProgressRow(rid, s) ==
    [run_id |-> rid, stock_code |-> s, status |-> "pending",
     combos_tested |-> 0, total_trades_found |-> 0]

HasProgress(tbl, rid, s) ==
    \E i \in 1..Len(tbl) : tbl[i].run_id = rid /\ tbl[i].stock_code = s

\* Faulty variant: the UPDATE writes the wrong status.
mark_stock_in_progress_asCompleted(tbl, rid, s) ==
    [i \in 1..Len(tbl) |->
        IF tbl[i].run_id = rid /\ tbl[i].stock_code = s
        THEN [tbl[i] EXCEPT !.status = "completed"]
        ELSE tbl[i]]

\* Faulty variant: the UPDATE leaves out the stock_code condition.
mark_stock_in_progress_everyStock(tbl, rid, s) ==
    [i \in 1..Len(tbl) |->
        IF tbl[i].run_id = rid
        THEN [tbl[i] EXCEPT !.status = "in_progress"]
        ELSE tbl[i]]

mark_stock_in_progress(tbl, rid, s) ==
    [i \in 1..Len(tbl) |->
        IF tbl[i].run_id = rid /\ tbl[i].stock_code = s
        THEN [tbl[i] EXCEPT !.status = "in_progress"]
        ELSE tbl[i]]

\* Faulty variant: an instrument with no combos tested is not marked.
mark_stock_complete_skipEmpty(tbl, rid, s, combos, ntrades) ==
    [i \in 1..Len(tbl) |->
        IF tbl[i].run_id = rid /\ tbl[i].stock_code = s /\ combos > 0
        THEN [tbl[i] EXCEPT !.status = "completed", !.combos_tested = combos,
                            !.total_trades_found = ntrades]
        ELSE tbl[i]]

mark_stock_complete(tbl, rid, s, combos, ntrades) ==
    [i \in 1..Len(tbl) |->
        IF tbl[i].run_id = rid /\ tbl[i].stock_code = s
        THEN [tbl[i] EXCEPT !.status = "completed", !.combos_tested = combos,
                            !.total_trades_found = ntrades]
        ELSE tbl[i]]

get_completed_stocks(tbl, rid) ==
    {tbl[i].stock_code : i \in {j \in 1..Len(tbl) :
        tbl[j].run_id = rid /\ tbl[j].status = "completed"}}

\* get_run: whether a row of backtest_runs has this run_id (the truth value
\* of the returned dict).
get_run(tbl, rid) == rid \in 1..Len(tbl)

\* Faulty variant: the status is written only together with the counters.
update_run_status_statusWithCounters(tbl, rid, status, combos, done) ==
    [i \in 1..Len(tbl) |->
        IF i # rid \/ combos = None THEN tbl[i]
        ELSE [tbl[i] EXCEPT !.status = status,
                            !.combos_completed = combos,
                            !.stocks_completed = IF done = None THEN @ ELSE done]]

update_run_status(tbl, rid, status, combos_completed, stocks_completed) ==
    [i \in 1..Len(tbl) |->
        IF i # rid THEN tbl[i]
        ELSE [tbl[i] EXCEPT
                !.status = status,
                !.combos_completed =
                    IF combos_completed = None THEN @ ELSE combos_completed,
                !.stocks_completed =
                    IF stocks_completed = None THEN @ ELSE stocks_completed]]

\* create_run, first statement: the row of backtest_runs (status 'running').
RunRow(total_stocks, total_combos) ==
    [status |-> "running", total_stocks |-> total_stocks,
     total_simulations |-> total_stocks * total_combos,
     combos_completed |-> 0, stocks_completed |-> 0]

InsertOrIgnoreProgress(tbl, rid, s) ==
    IF HasProgress(tbl, rid, s) THEN tbl ELSE Append(tbl, ProgressRow(rid, s))

\* create_run, first loop: each INSERT OR IGNORE is keyed by cur.lastrowid,
\* which every insert that is not ignored sets to the rowid of the new
\* progress row.
RECURSIVE CreateRunFirstLoop(_, _, _)
CreateRunFirstLoop(tbl, lr, ss) ==
    IF ss = <<>> THEN tbl
    ELSE LET new == InsertOrIgnoreProgress(tbl, lr, Head(ss))
         IN CreateRunFirstLoop(new, IF new = tbl THEN lr ELSE Len(new), Tail(ss))

\* create_run, second loop: INSERT OR IGNORE under run_id = MAX(run_id).
RECURSIVE CreateRunSecondLoop(_, _, _)
CreateRunSecondLoop(tbl, rid, ss) ==
    IF ss = <<>> THEN tbl
    ELSE CreateRunSecondLoop(InsertOrIgnoreProgress(tbl, rid, Head(ss)), rid, Tail(ss))

\* ---------------------------------------------------------------- orchestrator
total_combos == Len(params_list)
total_stocks == Len(stocks)
total_sims == total_combos * total_stocks

\* Faulty variant: every instrument that was ever started is skipped.
get_stocks_to_process_skipStarted(tbl, rid, ss) ==
    SelectSeq(ss, LAMBDA s :
        ~\E i \in 1..Len(tbl) : /\ tbl[i].run_id = rid
                                /\ tbl[i].stock_code = s
                                /\ tbl[i].status # "pending")

\* Faulty variant: the completed instruments are not filtered out.
get_stocks_to_process_all(tbl, rid, ss) == ss

get_stocks_to_process(tbl, rid, ss) ==
    SelectSeq(ss, LAMBDA s : s \notin get_completed_stocks(tbl, rid))

TerminalPcs == {"returned", "raised", "killed"}

\* Positions inside the try block of run().
SerialPcs == {"ser_mark", "ser_worker", "ser_metrics", "ser_trades",
              "ser_complete", "ser_update"}
ParallelPcs == {"par_mark", "par_pool", "par_metrics", "par_trades",
                "par_complete", "par_update"}
PoolPcs == ParallelPcs \ {"par_mark"}
TryPcs == SerialPcs \cup ParallelPcs \cup {"run_complete", "run_done"}

\* The locals of the loops and the pool are gone (an exception left the try
\* block, or the process ended).
DropLocals ==
    /\ stocks_to_process' = <<>>
    /\ idx' = 0
    /\ stocks_done' = 0
    /\ completed' = 0
    /\ result' = NoResult
    /\ nextTask' = 0
    /\ inflight' = {}
    /\ results' = {}
    /\ errors' = {}

\* The process ends.
EndProcess(how, rv) ==
    /\ pc' = how
    /\ retval' = rv
    /\ resume_run_id' = None
    /\ run_id' = None
    /\ lastrowid' = None
    /\ DropLocals
    /\ dispatched' = [s \in Range(stocks) |-> 0]
    /\ completedAtStart' = {}
    /\ inflightAtIntr' = {}
    /\ failed' = {}
    /\ outOfOrder' = FALSE

NewInvocation(rid) ==
    /\ invocations' = invocations + 1
    /\ resume_run_id' = rid
    /\ pc' = "init_run"
    /\ UNCHANGED <<otherVars, cfgVars, dbVars, run_id, lastrowid, localVars, poolVars,
                   obsVars, retval, everInterrupted>>

\* The state before the first invocation: an empty Result Store and a
\* configuration whose instrument list names each instrument once (the
\* instruments are numbered 1..n in list order).
Init ==
    /\ \E n \in 1..MaxStocks :
        /\ stocks = [i \in 1..n |-> i]
        \* at most one instrument of the run has no bars in the Bar Store
        /\ \E e \in 0..n : hasBars = [s \in 1..n |-> s # e]
        /\ dispatched = [s \in 1..n |-> 0]
    /\ workers \in 1..MaxWorkers
    /\ store_trades \in BOOLEAN
    /\ runs = <<>>
    /\ params = {}
    /\ metrics = EmptyBag
    /\ trades = EmptyBag
    /\ progress = <<>>
    /\ pc = "idle"
    /\ resume_run_id = None
    /\ run_id = None
    /\ lastrowid = None
    /\ stocks_to_process = <<>>
    /\ idx = 0
    /\ stocks_done = 0
    /\ completed = 0
    /\ result = NoResult
    /\ nextTask = 0
    /\ inflight = {}
    /\ results = {}
    /\ errors = {}
    /\ completedAtStart = {}
    /\ inflightAtIntr = {}
    /\ failed = {}
    /\ outOfOrder = FALSE
    /\ invocations = 0
    /\ retval = "none"
    /\ everInterrupted = FALSE
    /\ OthersIdle

\* python run_backtest.py: BacktestRunner(resume_run_id=None).run()
Start ==
    /\ pc = "idle"
    /\ NewInvocation(None)

\* python run_backtest.py --resume --run-id 1 after the previous invocation
\* ended: BacktestRunner(resume_run_id=1).run() with the same configuration.
Resume ==
    /\ pc \in TerminalPcs
    /\ invocations < MaxInvocations
    /\ NewInvocation(1)

\* _init_run, resuming: the run exists.
InitRunResume ==
    /\ pc = "init_run"
    /\ resume_run_id # None
    /\ get_run(runs, resume_run_id)
    /\ run_id' = resume_run_id
    /\ pc' = "get_stocks"
    /\ UNCHANGED <<otherVars, cfgVars, dbVars, resume_run_id, lastrowid, localVars,
                   poolVars, obsVars, histVars>>

\* _init_run, creating: create_run up to its first commit.
CreateRunInsert ==
    /\ pc = "init_run"
    /\ ~(resume_run_id # None /\ get_run(runs, resume_run_id))
    /\ runs' = Append(runs, RunRow(total_stocks, total_combos))
    /\ lastrowid' = Len(runs) + 1
    /\ pc' = "create_run_progress"
    /\ UNCHANGED <<otherVars, cfgVars, params, metrics, trades, progress, resume_run_id,
                   run_id, localVars, poolVars, obsVars, histVars>>

\* create_run, the two loops over the instruments and the second commit.
CreateRunProgress ==
    /\ pc = "create_run_progress"
    /\ progress' = CreateRunSecondLoop(
                      CreateRunFirstLoop(progress, lastrowid, stocks),
                      Len(runs), stocks)
    /\ run_id' = Len(runs)
    /\ pc' = "get_stocks"
    /\ UNCHANGED <<otherVars, cfgVars, runs, params, metrics, trades, resume_run_id,
                   lastrowid, localVars, poolVars, obsVars, histVars>>

\* run(): nothing left to process.
AlreadyComplete ==
    /\ pc = "get_stocks"
    /\ get_stocks_to_process(progress, run_id, stocks) = <<>>
    /\ EndProcess("returned", "already_complete")
    /\ UNCHANGED <<otherVars, cfgVars, dbVars, invocations, everInterrupted>>

GetStocksToProcess ==
    /\ pc = "get_stocks"
    /\ get_stocks_to_process(progress, run_id, stocks) # <<>>
    /\ stocks_to_process' = get_stocks_to_process(progress, run_id, stocks)
    /\ completedAtStart' = get_completed_stocks(progress, run_id)
    /\ pc' = "insert_params"
    /\ UNCHANGED <<otherVars, cfgVars, dbVars, idVars, idx, stocks_done, completed, result,
                   poolVars, dispatched, inflightAtIntr, failed, outOfOrder,
                   histVars>>

\* run(): store the params, set the counters, enter the try block.
InsertParams ==
    /\ pc = "insert_params"
    /\ params' = insert_params_batch(params, params_list)
    /\ stocks_done' = total_stocks - Len(stocks_to_process)
    /\ idx' = 1
    /\ pc' = IF workers <= 1 THEN "ser_mark" ELSE "par_mark"
    /\ UNCHANGED <<otherVars, cfgVars, runs, metrics, trades, progress, idVars,
                   stocks_to_process, completed, result, poolVars, obsVars,
                   histVars>>

\* ---- serial mode: the loop of run() and _process_stock_serial
SerMarkInProgress ==
    /\ pc = "ser_mark"
    /\ progress' = mark_stock_in_progress(progress, run_id, stocks_to_process[idx])
    /\ dispatched' = [dispatched EXCEPT ![stocks_to_process[idx]] = @ + 1]
    /\ pc' = "ser_worker"
    /\ UNCHANGED <<otherVars, cfgVars, runs, params, metrics, trades, idVars, localVars,
                   poolVars, completedAtStart, inflightAtIntr, failed,
                   outOfOrder, histVars>>

SerWorkerReturns ==
    /\ pc = "ser_worker"
    /\ result' = process_stock_worker(stocks_to_process[idx],
                                      hasBars[stocks_to_process[idx]], store_trades)
    /\ pc' = "ser_metrics"
    /\ UNCHANGED <<otherVars, cfgVars, dbVars, idVars, stocks_to_process, idx, stocks_done,
                   completed, poolVars, obsVars, histVars>>

\* An unexpected exception inside the task propagates out of
\* _process_stock_serial and of the loop to run()'s "except Exception".
SerWorkerRaises ==
    /\ pc = "ser_worker"
    /\ failed' = {stocks_to_process[idx]}
    /\ pc' = "handler_exc"
    /\ DropLocals
    /\ UNCHANGED <<otherVars, cfgVars, dbVars, idVars, dispatched, completedAtStart,
                   inflightAtIntr, outOfOrder, histVars>>

SerInsertMetrics ==
    /\ pc = "ser_metrics"
    /\ metrics' = insert_metrics_batch(metrics, run_id, result.metrics_rows)
    /\ pc' = IF store_trades /\ result.trade_rows # <<>>
             THEN "ser_trades" ELSE "ser_complete"
    /\ UNCHANGED <<otherVars, cfgVars, runs, params, trades, progress, idVars, localVars,
                   poolVars, obsVars, histVars>>

SerInsertTrades ==
    /\ pc = "ser_trades"
    /\ trades' = insert_trades_batch(trades, run_id, result.trade_rows)
    /\ pc' = "ser_complete"
    /\ UNCHANGED <<otherVars, cfgVars, runs, params, metrics, progress, idVars, localVars,
                   poolVars, obsVars, histVars>>

SerMarkComplete ==
    /\ pc = "ser_complete"
    /\ progress' = mark_stock_complete(progress, run_id, result.stock_code,
                                       result.combos_tested, result.total_trades)
    /\ pc' = "ser_update"
    /\ UNCHANGED <<otherVars, cfgVars, runs, params, metrics, trades, idVars, localVars,
                   poolVars, obsVars, histVars>>

SerUpdateRun ==
    /\ pc = "ser_update"
    /\ stocks_done' = stocks_done + 1
    /\ runs' = update_run_status(runs, run_id, "running",
                                 (stocks_done + 1) * total_combos, stocks_done + 1)
    /\ IF idx < Len(stocks_to_process)
       THEN idx' = idx + 1 /\ pc' = "ser_mark"
       ELSE idx' = idx /\ pc' = "run_complete"
    /\ UNCHANGED <<otherVars, cfgVars, params, metrics, trades, progress, idVars,
                   stocks_to_process, completed, result, poolVars, obsVars,
                   histVars>>

\* ---- parallel mode: _process_stocks_parallel
ParMarkInProgress ==
    /\ pc = "par_mark"
    /\ progress' = mark_stock_in_progress(progress, run_id, stocks_to_process[idx])
    /\ IF idx < Len(stocks_to_process)
       THEN /\ idx' = idx + 1
            /\ pc' = "par_mark"
            /\ UNCHANGED <<completed, nextTask>>
       ELSE /\ idx' = idx
            /\ pc' = "par_pool"
            /\ completed' = 0
            /\ nextTask' = 1
    /\ UNCHANGED <<otherVars, cfgVars, runs, params, metrics, trades, idVars,
                   stocks_to_process, stocks_done, result, inflight, results,
                   errors, obsVars, histVars>>

\* imap_unordered hands the next instrument of the list to an idle worker.
PoolDispatch ==
    /\ pc \in PoolPcs
    /\ nextTask <= Len(stocks_to_process)
    /\ Cardinality(inflight) < workers
    /\ inflight' = inflight \cup {nextTask}
    /\ dispatched' = [dispatched EXCEPT ![stocks_to_process[nextTask]] = @ + 1]
    /\ nextTask' = nextTask + 1
    /\ UNCHANGED <<otherVars, cfgVars, dbVars, pc, idVars, localVars, results, errors,
                   completedAtStart, inflightAtIntr, failed, outOfOrder,
                   histVars>>

\* A worker finishes task i and sends its payload back.
PoolWorkerReturns(i) ==
    /\ pc \in PoolPcs
    /\ i \in inflight
    /\ inflight' = inflight \ {i}
    /\ results' = results \cup
            {process_stock_worker(stocks_to_process[i],
                                  hasBars[stocks_to_process[i]], store_trades)}
    /\ UNCHANGED <<otherVars, cfgVars, dbVars, pc, idVars, localVars, nextTask, errors,
                   obsVars, histVars>>

\* Task i raises an unexpected exception: the pool sends the exception back.
PoolWorkerRaises(i) ==
    /\ pc \in PoolPcs
    /\ i \in inflight
    /\ inflight' = inflight \ {i}
    /\ errors' = errors \cup {stocks_to_process[i]}
    /\ UNCHANGED <<otherVars, cfgVars, dbVars, pc, idVars, localVars, nextTask, results,
                   obsVars, histVars>>

\* The for loop over imap_unordered receives a payload, in completion order.
ParReceive ==
    /\ pc = "par_pool"
    /\ \E r \in results :
        /\ result' = r
        /\ results' = results \ {r}
        /\ outOfOrder' = (outOfOrder \/
                \E j \in 1..Len(stocks_to_process) : \E i \in 1..(j - 1) :
                    /\ stocks_to_process[j] = r.stock_code
                    /\ \/ i \in inflight
                       \/ stocks_to_process[i] \in errors
                       \/ \E q \in results : q.stock_code = stocks_to_process[i])
    /\ completed' = completed + 1
    /\ pc' = "par_metrics"
    /\ UNCHANGED <<otherVars, cfgVars, dbVars, idVars, stocks_to_process, idx, stocks_done,
                   nextTask, inflight, errors, dispatched, completedAtStart,
                   inflightAtIntr, failed, histVars>>

\* The for loop receives the exception of a failed task: it is re-raised in
\* the orchestrator, the with block terminates the pool, and the exception
\* reaches run()'s "except Exception".
ParReceiveError ==
    /\ pc = "par_pool"
    /\ \E s \in errors : failed' = {s}
    /\ pc' = "handler_exc"
    /\ DropLocals
    /\ UNCHANGED <<otherVars, cfgVars, dbVars, idVars, dispatched, completedAtStart,
                   inflightAtIntr, outOfOrder, histVars>>

ParInsertMetrics ==
    /\ pc = "par_metrics"
    /\ metrics' = insert_metrics_batch(metrics, run_id, result.metrics_rows)
    /\ pc' = IF store_trades /\ result.trade_rows # <<>>
             THEN "par_trades" ELSE "par_complete"
    /\ UNCHANGED <<otherVars, cfgVars, runs, params, trades, progress, idVars, localVars,
                   poolVars, obsVars, histVars>>

ParInsertTrades ==
    /\ pc = "par_trades"
    /\ trades' = insert_trades_batch(trades, run_id, result.trade_rows)
    /\ pc' = "par_complete"
    /\ UNCHANGED <<otherVars, cfgVars, runs, params, metrics, progress, idVars, localVars,
                   poolVars, obsVars, histVars>>

ParMarkComplete ==
    /\ pc = "par_complete"
    /\ progress' = mark_stock_complete(progress, run_id, result.stock_code,
                                       result.combos_tested, result.total_trades)
    /\ pc' = "par_update"
    /\ UNCHANGED <<otherVars, cfgVars, runs, params, metrics, trades, idVars, localVars,
                   poolVars, obsVars, histVars>>

ParUpdateRun ==
    /\ pc = "par_update"
    /\ runs' = update_run_status(runs, run_id, "running",
                                 completed * total_combos, completed)
    /\ pc' = "par_pool"
    /\ UNCHANGED <<otherVars, cfgVars, params, metrics, trades, progress, idVars,
                   localVars, poolVars, obsVars, histVars>>

\* imap_unordered is exhausted: every task's payload has been received.
ParPoolDone ==
    /\ pc = "par_pool"
    /\ completed = Len(stocks_to_process)
    /\ stocks_done' = total_stocks
    /\ pc' = "run_complete"
    /\ UNCHANGED <<otherVars, cfgVars, dbVars, idVars, stocks_to_process, idx, completed,
                   result, poolVars, obsVars, histVars>>

\* ---- the end of run()
MarkRunComplete ==
    /\ pc = "run_complete"
    /\ runs' = update_run_status(runs, run_id, "completed", total_sims, total_stocks)
    /\ pc' = "run_done"
    /\ UNCHANGED <<otherVars, cfgVars, params, metrics, trades, progress, idVars,
                   localVars, poolVars, obsVars, histVars>>

ReturnCompleted ==
    /\ pc = "run_done"
    /\ EndProcess("returned", "completed")
    /\ UNCHANGED <<otherVars, cfgVars, dbVars, invocations, everInterrupted>>

\* SIGINT while the orchestrator is inside the try block: KeyboardInterrupt is
\* raised in the orchestrator; leaving the with block terminates the pool, in
\* serial mode the worker call is abandoned.
Interrupt ==
    /\ pc \in TryPcs
    /\ everInterrupted' = TRUE
    /\ inflightAtIntr' = IF pc = "ser_worker" THEN {stocks_to_process[idx]}
                         ELSE {stocks_to_process[i] : i \in inflight}
                              \cup {q.stock_code : q \in results}
    /\ pc' = "handler_kbd"
    /\ DropLocals
    /\ UNCHANGED <<otherVars, cfgVars, dbVars, idVars, dispatched, completedAtStart,
                   failed, outOfOrder, invocations, retval>>

\* except KeyboardInterrupt
HandleKeyboardInterrupt ==
    /\ pc = "handler_kbd"
    /\ runs' = update_run_status(runs, run_id, "interrupted", None, None)
    /\ EndProcess("returned", "interrupted")
    /\ UNCHANGED <<otherVars, cfgVars, params, metrics, trades, progress, invocations,
                   everInterrupted>>

\* except Exception: mark the run interrupted and re-raise
HandleException ==
    /\ pc = "handler_exc"
    /\ runs' = update_run_status(runs, run_id, "interrupted", None, None)
    /\ EndProcess("raised", "raised")
    /\ UNCHANGED <<otherVars, cfgVars, params, metrics, trades, progress, invocations,
                   everInterrupted>>

\* The process dies without running a handler: a crash or kill at any point,
\* or SIGINT outside the try block.
Kill ==
    /\ pc \notin TerminalPcs \cup {"idle"}
    /\ EndProcess("killed", "killed")
    /\ everInterrupted' = TRUE
    /\ UNCHANGED <<otherVars, cfgVars, dbVars, invocations>>

\* The steps of the program itself.
Run ==
    \/ Start
    \/ Resume
    \/ InitRunResume
    \/ CreateRunInsert
    \/ CreateRunProgress
    \/ AlreadyComplete
    \/ GetStocksToProcess
    \/ InsertParams
    \/ SerMarkInProgress
    \/ SerWorkerReturns
    \/ SerWorkerRaises
    \/ SerInsertMetrics
    \/ SerInsertTrades
    \/ SerMarkComplete
    \/ SerUpdateRun
    \/ ParMarkInProgress
    \/ PoolDispatch
    \/ \E i \in 1..MaxStocks : PoolWorkerReturns(i)
    \/ \E i \in 1..MaxStocks : PoolWorkerRaises(i)
    \/ ParReceive
    \/ ParReceiveError
    \/ ParInsertMetrics
    \/ ParInsertTrades
    \/ ParMarkComplete
    \/ ParUpdateRun
    \/ ParPoolDone
    \/ MarkRunComplete
    \/ ReturnCompleted
    \/ Interrupt
    \/ HandleKeyboardInterrupt
    \/ HandleException

Next == Run \/ Kill

Spec == Init /\ [][Next]_vars

\* No crash: the process is never killed, and an exception handler that has
\* been entered runs to its end.
LiveSpec ==
    /\ Init
    /\ [][Run]_vars
    /\ WF_vars(HandleKeyboardInterrupt)

\* The locals before the first invocation.
DropLocalsInit ==
    /\ stocks_to_process = <<>>
    /\ idx = 0
    /\ stocks_done = 0
    /\ completed = 0
    /\ result = NoResult
    /\ nextTask = 0
    /\ inflight = {}
    /\ results = {}
    /\ errors = {}

\* ------------------------------------------------- several runs on one store
\* Uninterrupted serial invocations on one Result Store, each with its own
\* instrument list (--stocks): new runs and resumes of existing runs.
SortedSeq(S) ==
    CHOOSE q \in [1..Cardinality(S) -> S] :
        \A i, j \in 1..Cardinality(S) : i < j => q[i] < q[j]

StockLists == {SortedSeq(S) : S \in (SUBSET (1..MaxStocks)) \ {{}}}

\* Nothing has run yet on an empty store.
RunnerIdle ==
    /\ stocks = <<>>
    /\ hasBars = [s \in 1..MaxStocks |-> TRUE]
    /\ dispatched = <<>>
    /\ workers = 1
    /\ store_trades = FALSE
    /\ runs = <<>>
    /\ params = {}
    /\ metrics = EmptyBag
    /\ trades = EmptyBag
    /\ progress = <<>>
    /\ pc = "idle"
    /\ resume_run_id = None
    /\ run_id = None
    /\ lastrowid = None
    /\ DropLocalsInit
    /\ completedAtStart = {}
    /\ inflightAtIntr = {}
    /\ failed = {}
    /\ outOfOrder = FALSE
    /\ invocations = 0
    /\ retval = "none"
    /\ everInterrupted = FALSE

RunsInit == RunnerIdle /\ OthersIdle

\* python run_backtest.py [--resume --run-id rid] --stocks ss
Invoke(rid, ss) ==
    /\ pc \in TerminalPcs \cup {"idle"}
    /\ invocations < MaxRuns
    /\ invocations' = invocations + 1
    /\ stocks' = ss
    /\ dispatched' = [s \in Range(ss) |-> 0]
    /\ resume_run_id' = rid
    /\ pc' = "init_run"
    /\ UNCHANGED <<hasBars, workers, store_trades, dbVars, run_id, lastrowid,
                   localVars, poolVars, completedAtStart, inflightAtIntr,
                   failed, outOfOrder, retval, everInterrupted>>

RunFresh ==
    /\ \E ss \in StockLists : Invoke(None, ss)
    /\ UNCHANGED otherVars

RunResume ==
    /\ \E ss \in StockLists : \E rid \in 1..Len(runs) : Invoke(rid, ss)
    /\ UNCHANGED otherVars

RunsNext ==
    \/ RunFresh
    \/ RunResume
    \/ InitRunResume
    \/ CreateRunInsert
    \/ CreateRunProgress
    \/ AlreadyComplete
    \/ GetStocksToProcess
    \/ InsertParams
    \/ SerMarkInProgress
    \/ SerWorkerReturns
    \/ SerInsertMetrics
    \/ SerMarkComplete
    \/ SerUpdateRun
    \/ MarkRunComplete
    \/ ReturnCompleted

RunsSpec == RunsInit /\ [][RunsNext]_vars

\* ------------------------------ rate limiter and bar downloader, the steps
\* RateLimiter.can_proceed: the day cap first, from the persisted count; then
\* the timestamps older than the window are dropped and the rest counted.
\* Faulty variant: the minute cap is compared with > instead of >=.
can_proceed_minuteOffByOne(ts, daily_calls, t, lim) ==
    IF daily_calls >= lim.calls_per_day
    THEN [reason |-> "Daily limit", ts |-> ts]
    ELSE LET kept == SelectSeq(ts, LAMBDA x : t - x < WindowTicks)
         IN [reason |-> IF Len(kept) > lim.calls_per_minute
                        THEN "Minute limit" ELSE "OK",
             ts |-> kept]

\* Faulty variant: the day cap is compared with > instead of >=.
can_proceed_dailyOffByOne(ts, daily_calls, t, lim) ==
    IF daily_calls > lim.calls_per_day
    THEN [reason |-> "Daily limit", ts |-> ts]
    ELSE LET kept == SelectSeq(ts, LAMBDA x : t - x < WindowTicks)
         IN [reason |-> IF Len(kept) >= lim.calls_per_minute
                        THEN "Minute limit" ELSE "OK",
             ts |-> kept]

can_proceed(ts, daily_calls, t, lim) ==
    IF daily_calls >= lim.calls_per_day
    THEN [reason |-> "Daily limit", ts |-> ts]
    ELSE LET kept == SelectSeq(ts, LAMBDA x : t - x < WindowTicks)
         IN [reason |-> IF Len(kept) >= lim.calls_per_minute
                        THEN "Minute limit" ELSE "OK",
             ts |-> kept]

\* BacktestDatabase.update_stock_progress: last_downloaded_date, status and
\* total_api_calls (the total of records is not modelled).
update_stock_progress(tbl, s, done, status, calls_made) ==
    [tbl EXCEPT ![s] = [status |-> status, done |-> done,
                        total_api_calls |-> @.total_api_calls + calls_made]]

\* A process starts: a new RateLimiter, then OHLCDownloader.run over the
\* stocks that are not completed.
DlRun ==
    /\ dl.pc \in {"idle", "daily_limit", "done"}
    /\ dl.session < MaxSessions
    /\ timestamps' = <<>>
    /\ LET by(st) == SelectSeq([s \in 1..DlStocks |-> s],
                         LAMBDA s : download_progress[s].status = st)
           \* get_all_progress: ORDER BY status, stock_code
           q == by("error") \o by("in_progress") \o by("pending")
       IN /\ dl' = [pc |-> IF q = <<>> THEN "done" ELSE "wait", queue |-> q,
                    attempt |-> 0, result |-> "none",
                    waited |-> FALSE, wakeAt |-> 0,
                    session |-> dl.session + 1, calls_total |-> 0,
                    fetched |-> dl.fetched]
          /\ download_progress' =
                IF q = <<>> THEN download_progress
                ELSE update_stock_progress(download_progress, Head(q),
                         download_progress[Head(q)].done, "in_progress", 0)
    /\ UNCHANGED <<limits, now, today, usage>>

\* RateLimiter.wait_if_needed, one pass of its loop, and what _download_stock
\* does with a False.
DlWait ==
    /\ dl.pc = "wait"
    /\ LET r == can_proceed(timestamps, usage[today], now, limits)
           s == Head(dl.queue)
       IN /\ timestamps' = r.ts
          /\ CASE r.reason = "OK" ->
                    /\ dl' = [dl EXCEPT !.pc = "fetch", !.attempt = 0]
                    /\ UNCHANGED download_progress
               [] r.reason = "Daily limit" ->
                    /\ dl' = [dl EXCEPT !.pc = "daily_limit"]
                    /\ download_progress' =
                          update_stock_progress(download_progress, s,
                              download_progress[s].done, "in_progress",
                              dl.calls_total)
               [] r.reason = "Minute limit" ->
                    /\ dl' = [dl EXCEPT !.pc = "sleeping", !.waited = TRUE,
                                        !.wakeAt = now + WindowTicks
                                            - (now - Head(r.ts)) + BufferTicks]
                    /\ UNCHANGED download_progress
    /\ UNCHANGED <<limits, now, today, usage>>

\* time.sleep(wait_seconds) returns, at the wake-up time or later.
DlWake ==
    /\ dl.pc = "sleeping"
    /\ \E t \in dl.wakeAt..(dl.wakeAt + 1) :
          /\ t >= now
          /\ t <= MaxTime
          /\ now' = t
    /\ dl' = [dl EXCEPT !.pc = "wait"]
    /\ UNCHANGED <<limits, today, timestamps, usage, download_progress>>

\* _fetch_chunk_with_retry, one pass of its loop: one request to the broker
\* API, the time it takes, and its response.
DlRequest ==
    /\ dl.pc = "fetch"
    /\ \E took \in 0..1 :
          /\ now + took <= MaxTime
          /\ now' = now + took
    /\ \E response \in {"data", "invalid", "retryable"} :
          dl' = CASE response = "data" ->
                       [dl EXCEPT !.pc = "record", !.result = "success"]
                  [] response = "invalid" ->
                       [dl EXCEPT !.pc = "record", !.result = "failure"]
                  [] response = "retryable" ->
                       IF dl.attempt + 1 < MAX_RETRIES
                       THEN [dl EXCEPT !.attempt = @ + 1]
                       ELSE [dl EXCEPT !.pc = "record", !.result = "failure"]
    /\ UNCHANGED <<limits, today, timestamps, usage, download_progress>>

\* _download_stock after the fetch: calls_total += 1 and record_call(), then
\* the progress of the chunk and the move to the next chunk or stock.
\* dl.fetched counts the chunk fetches performed for each stock.
DlRecord ==
    /\ dl.pc = "record"
    /\ timestamps' = Append(timestamps, now)
    /\ usage' = [usage EXCEPT ![today] = @ + 1]
    /\ LET s == Head(dl.queue)
           done == download_progress[s].done
       IN IF dl.result = "success"
          THEN IF done + 1 < DlChunks
               THEN /\ download_progress' =
                          update_stock_progress(download_progress, s, done + 1,
                              "in_progress", 1)
                    /\ dl' = [dl EXCEPT !.pc = "wait", !.waited = FALSE,
                                        !.calls_total = @ + 1,
                                        !.fetched[s] = @ + 1]
               ELSE LET q == Tail(dl.queue)
                        p == update_stock_progress(download_progress, s,
                                 done + 1, "completed", 1)
                    IN /\ dl' = [dl EXCEPT
                                    !.pc = IF q = <<>> THEN "done" ELSE "wait",
                                    !.queue = q,
                                    !.waited = FALSE,
                                    !.calls_total = 0,
                                    !.fetched[s] = @ + 1]
                       /\ download_progress' =
                             IF q = <<>> THEN p
                             ELSE update_stock_progress(p, Head(q),
                                      p[Head(q)].done, "in_progress", 0)
          ELSE LET q == Tail(dl.queue)
                   p == update_stock_progress(download_progress, s, done,
                            "error", 1)
               IN /\ dl' = [dl EXCEPT
                               !.pc = IF q = <<>> THEN "done" ELSE "wait",
                               !.queue = q,
                               !.waited = FALSE,
                               !.calls_total = 0,
                               !.fetched[s] = @ + 1]
                  /\ download_progress' =
                        IF q = <<>> THEN p
                        ELSE update_stock_progress(p, Head(q),
                                 p[Head(q)].done, "in_progress", 0)
    /\ UNCHANGED <<limits, now, today>>

\* The calendar day changes.
Midnight ==
    /\ today < MaxDay
    /\ today' = today + 1
    /\ UNCHANGED <<limits, now, timestamps, usage, download_progress,
                   dl>>

DlInit ==
    /\ RunnerIdle
    /\ ApiIdle
    /\ DlIdle
    /\ limits \in [calls_per_minute : 1..MaxLimit, calls_per_day : 1..MaxLimit]

DlStep == DlRun \/ DlWait \/ DlWake \/ DlRequest \/ DlRecord \/ Midnight

DlNext ==
    /\ DlStep
    /\ UNCHANGED <<cfgVars, dbVars, pc, idVars, localVars, poolVars, obsVars,
                   histVars, apiVars>>

DownloadSpec == DlInit /\ [][DlNext]_vars

\* ------------------------------------------- one chunk, with its retries
\* backtest.max_retries of the configuration goes up to MaxRetriesCfg; the
\* class default MAX_RETRIES is one of the values.
MaxRetriesCfg == 3

\* What the broker API can answer to one request.  Success is absent
\* ("None"), an empty list, rows, or rows that the conversion to tuples
\* rejects; an Error message is known by which of the three terms it contains;
\* the call can also raise.
Terms == {"invalid", "not found", "no data"}

Responses ==
    [raises : {FALSE}, Status : {200, 500},
     Success : {"None", "empty", "rows", "malformed"},
     Error : [given : {TRUE}, terms : SUBSET Terms]
                 \cup {[given |-> FALSE, terms |-> {}]}]
    \cup {[raises |-> TRUE, Status |-> 0, Success |-> "None",
           Error |-> [given |-> FALSE, terms |-> {}]]}

\* The body of the retry loop for one response: a return value, or NoReturn
\* when the loop goes on to its backoff.
NoReturn == [returns |-> FALSE]

attempt_outcome(response) ==
    LET success(data) == [success |-> TRUE, data |-> data, error |-> {}]
    IN  IF response.raises THEN NoReturn
        ELSE IF response.Status = 200 /\ response.Success # "None"
        THEN CASE response.Success = "empty" -> success("empty")
               [] response.Success = "rows" -> success("records")
               [] response.Success = "malformed" -> NoReturn
        ELSE IF response.Success = "None" /\ response.Error.given
        THEN IF response.Error.terms # {}
             THEN IF "no data" \in response.Error.terms
                  THEN success("empty")
                  ELSE [success |-> FALSE, data |-> "None",
                        error |-> response.Error.terms]
             ELSE NoReturn
        ELSE success("empty")

\* _fetch_chunk_with_retry is called: attempt 0 of range(max_retries), no
\* request sent and no sleep taken yet.
FetchInit ==
    /\ RunnerIdle
    /\ DlIdle
    /\ limits = [calls_per_minute |-> 1, calls_per_day |-> 1]
    /\ ret = NoCall
    /\ \E max_retries \in 0..MaxRetriesCfg, retry_delay \in 1..2 :
          call = [op |-> "_fetch_chunk_with_retry",
                  max_retries |-> max_retries, retry_delay |-> retry_delay,
                  attempt |-> 0, at |-> "request", requests |-> 0,
                  sleeps |-> <<>>,
                  response |-> [raises |-> TRUE, Status |-> 0,
                                Success |-> "None",
                                Error |-> [given |-> FALSE, terms |-> {}]]]

\* One pass of the loop up to its backoff: the request and its response.
FetchRequest ==
    /\ call.op = "_fetch_chunk_with_retry"
    /\ ret = NoCall
    /\ call.at = "request"
    /\ call.attempt < call.max_retries
    /\ \E response \in Responses :
          LET out == attempt_outcome(response)
          IN  /\ call' = [call EXCEPT
                             !.requests = @ + 1,
                             !.response = response,
                             !.at = IF out = NoReturn THEN "backoff" ELSE @]
              /\ ret' = IF out = NoReturn THEN ret ELSE out
    /\ UNCHANGED <<cfgVars, dbVars, pc, idVars, localVars, poolVars,
                   obsVars, histVars, dlVars>>

\* Faulty variant: the backoff sleeps after the last attempt too.
FetchBackoff_sleepsAfterLast ==
    /\ call.op = "_fetch_chunk_with_retry"
    /\ ret = NoCall
    /\ call.at = "backoff"
    /\ call' = [call EXCEPT
                   !.sleeps = Append(@, call.retry_delay * 2 ^ call.attempt),
                   !.attempt = @ + 1,
                   !.at = "request"]
    /\ UNCHANGED <<cfgVars, dbVars, pc, idVars, localVars, poolVars,
                   obsVars, histVars, dlVars, ret>>

\* The exponential backoff before the next attempt.
FetchBackoff ==
    /\ call.op = "_fetch_chunk_with_retry"
    /\ ret = NoCall
    /\ call.at = "backoff"
    /\ call' = [call EXCEPT
                   !.sleeps = IF call.attempt < call.max_retries - 1
                              THEN Append(@, call.retry_delay
                                                * 2 ^ call.attempt)
                              ELSE @,
                   !.attempt = @ + 1,
                   !.at = "request"]
    /\ UNCHANGED <<cfgVars, dbVars, pc, idVars, localVars, poolVars,
                   obsVars, histVars, dlVars, ret>>

\* The loop is over: "Failed after {max_retries} retries".
FetchGiveUp ==
    /\ call.op = "_fetch_chunk_with_retry"
    /\ ret = NoCall
    /\ call.at = "request"
    /\ call.attempt >= call.max_retries
    /\ ret' = [success |-> FALSE, data |-> "None", error |-> {"Failed after"}]
    /\ UNCHANGED <<cfgVars, dbVars, pc, idVars, localVars, poolVars,
                   obsVars, histVars, dlVars, call>>

FetchNext == FetchRequest \/ FetchBackoff \/ FetchGiveUp

\* The function runs on one thread, and time.sleep returns.
FetchSpec == FetchInit /\ [][FetchNext]_vars /\ WF_vars(FetchNext)

\* ------------------------------------------------------- the command line
\* --sl-types and --directions take any strings: a filter is absent, holds
\* values of the enum, or holds a string that is no value of the enum.
FilterArgs == {"absent", "valid", "unknown"}

\* ParameterGrid.generate_filtered: StopLossType(s) and TradeDirection(d)
\* raise ValueError on a string that is no value of the enum.
generate_filtered(sl_types, directions) ==
    IF sl_types = "unknown" \/ directions = "unknown"
    THEN "ValueError" ELSE "filtered"

\* The grid of BacktestRunner.__init__; the preview of run_backtest.py makes
\* the same choice (it skips the grid when --quick is given).
params_list_of(quick, sl_types, directions) ==
    IF quick THEN "quick"
    ELSE IF sl_types # "absent" \/ directions # "absent"
         THEN generate_filtered(sl_types, directions)
         ELSE "all"

\* python run_backtest.py [--quick] [--sl-types ...] [--directions ...]
\* --stocks ss: the preview, the runner's constructor, then run().
CliRun ==
    \E quick \in BOOLEAN, sl \in FilterArgs, dir \in FilterArgs :
        /\ pc \in TerminalPcs \cup {"idle"}
        /\ call' = [op |-> "run_backtest", quick |-> quick, sl_types |-> sl,
                    directions |-> dir, runs |-> Len(runs),
                    progress |-> Len(progress)]
        /\ IF params_list_of(quick, sl, dir) = "ValueError"
           THEN /\ ret' = "ValueError"
                /\ UNCHANGED <<cfgVars, dbVars, pc, idVars, localVars,
                               poolVars, obsVars, histVars, dlVars>>
           ELSE /\ ret' = params_list_of(quick, sl, dir)
                /\ \E ss \in StockLists : Invoke(None, ss)
                /\ UNCHANGED dlVars

CliNext == CliRun \/ RunsNext

CliSpec == RunsInit /\ [][CliNext]_vars

\* ------------------------------------------------------- MetricsCalculator
\* A trade is represented by its net_pnl.  Of the PerformanceResult of a
\* non-empty list the model computes the counts, sums and extrema; the other
\* fields are floating-point quotients and are left out of its record.
MaxTrades == 3
TradeLists == UNION {[1..k -> {-1, 0, 2}] : k \in 0..MaxTrades}
Capitals == {-1, 0, 100000}

_empty_result ==
    [total_trades |-> 0, winning_trades |-> 0, losing_trades |-> 0,
     win_rate |-> 0, total_pnl |-> 0, net_pnl |-> 0, avg_pnl_per_trade |-> 0,
     avg_winner |-> 0, avg_loser |-> 0, profit_factor |-> 0,
     max_drawdown |-> 0, max_drawdown_pct |-> 0, max_consecutive_losses |-> 0,
     sharpe_ratio |-> 0, sortino_ratio |-> 0, expectancy |-> 0,
     avg_r_multiple |-> 0, calmar_ratio |-> 0, best_trade |-> 0,
     worst_trade |-> 0, avg_holding_minutes |-> 0,
     composite_score |-> -999999]

\* Faulty variant: the empty list gets a score of 0 like every other field.
compute_zeroScore(pnls, capital) ==
    [_empty_result EXCEPT !.composite_score = 0]

compute(pnls, capital) ==
    IF pnls = <<>> THEN _empty_result
    ELSE LET n == Len(pnls)
             Max(a, b) == IF a >= b THEN a ELSE b
             equity[i \in 0..n] ==
                 IF i = 0 THEN capital ELSE equity[i - 1] + pnls[i]
             peak[i \in 0..n] ==
                 IF i = 0 THEN capital ELSE Max(peak[i - 1], equity[i])
             max_dd[i \in 0..n] ==
                 IF i = 0 THEN 0 ELSE Max(max_dd[i - 1], peak[i] - equity[i])
             current[i \in 0..n] ==
                 IF i = 0 THEN 0
                 ELSE IF pnls[i] <= 0 THEN current[i - 1] + 1 ELSE 0
             max_consec[i \in 0..n] ==
                 IF i = 0 THEN 0 ELSE Max(max_consec[i - 1], current[i])
         IN [total_trades |-> n,
             winning_trades |-> Cardinality({i \in 1..n : pnls[i] > 0}),
             losing_trades |-> Cardinality({i \in 1..n : pnls[i] <= 0}),
             net_pnl |-> equity[n] - capital,
             max_drawdown |-> max_dd[n],
             max_consecutive_losses |-> max_consec[n],
             best_trade |-> CHOOSE x \in Range(pnls) :
                               \A y \in Range(pnls) : x >= y,
             worst_trade |-> CHOOSE x \in Range(pnls) :
                                \A y \in Range(pnls) : x <= y]

\* MetricsCalculator(capital).compute(trades)
Compute ==
    \E pnls \in TradeLists, capital \in Capitals :
        /\ call' = [op |-> "compute", trades |-> pnls, capital |-> capital]
        /\ ret' = compute(pnls, capital)
        /\ UNCHANGED <<cfgVars, dbVars, pc, idVars, localVars, poolVars,
                       obsVars, histVars, dlVars>>

MetricsSpec == RunsInit /\ [][Compute]_vars

\* ------------------------------------------- the store's insert API, directly
\* Callers other than the orchestrator hand the two idempotent inserts any
\* list of rows: rows that repeat a key inside one list, rows whose key is in
\* the table with other values.
MaxBatch == 2
StoreRunIds == 1..2
StoreStocks == {1}
MetricValues == {1, 11}
SeqsUpTo(S, n) == UNION {[1..k -> S] : k \in 0..n}
MetricRowLists ==
    SeqsUpTo((1..NParamIds) \X StoreStocks \X MetricValues, MaxBatch)
ParamLists == SeqsUpTo(1..NParamObjects, MaxBatch)

\* The call is recorded with the rows it offered that the table does not hold
\* afterwards.
ApiInsertMetrics ==
    \E rid \in StoreRunIds, rows \in MetricRowLists :
        /\ metrics' = insert_metrics_batch(metrics, rid, rows)
        /\ call' = [op |-> "insert_metrics_batch", run_id |-> rid,
                    ignored |-> {<<rid>> \o rows[i] : i \in 1..Len(rows)}
                                \ BagToSet(metrics')]
        /\ ret' = Len(rows)
        /\ UNCHANGED <<cfgVars, runs, params, trades, progress, pc, idVars,
                       localVars, poolVars, obsVars, histVars, dlVars>>

ApiInsertParams ==
    \E ps \in ParamLists :
        /\ params' = insert_params_batch(params, ps)
        /\ call' = [op |-> "insert_params_batch",
                    ignored |-> {<<param_id(ps[i]), to_json(ps[i])>> :
                                    i \in 1..Len(ps)} \ params']
        /\ ret' = Len(ps)
        /\ UNCHANGED <<cfgVars, runs, metrics, trades, progress, pc, idVars,
                       localVars, poolVars, obsVars, histVars, dlVars>>

\* The ranking queries.  The metric columns of backtest_metrics (three of the
\* 22 stand for all) and the other columns a statement can name.
RankingQueries == {"get_top_strategies", "get_top_stocks", "get_best_pairs"}
MetricColumns == {"composite_score", "net_pnl", "sharpe_ratio"}
OtherColumns == {"stock_code", "run_id"}

\* get_top_strategies / get_top_stocks / get_best_pairs: the f-string puts
\* the metric argument into the statement as it is, and the statement is
\* handed to sqlite, which either answers with rows or raises
\* OperationalError for a name that is no column.
ranking_query(q, rid, metric, limit) ==
    [executed |-> <<q, metric, rid, limit>>,
     outcome |-> IF metric \in MetricColumns \cup OtherColumns
                 THEN "rows" ELSE "OperationalError"]

ApiRanking ==
    \E q \in RankingQueries, rid \in 1..MaxRuns, limit \in {1, 20} :
    \E metric \in MetricColumns \cup OtherColumns \cup {"no_such_column"} :
        /\ call' = [op |-> q, run_id |-> rid, metric |-> metric,
                    limit |-> limit]
        /\ ret' = ranking_query(q, rid, metric, limit)
        /\ UNCHANGED <<cfgVars, dbVars, pc, idVars, localVars, poolVars,
                       obsVars, histVars, dlVars>>

StoreNext == ApiInsertMetrics \/ ApiInsertParams

StoreSpec == RunsInit /\ [][StoreNext]_vars

RankSpec == RunsInit /\ [][ApiRanking]_vars

\* ---------------------------------------------------------------- properties
\* What the Result Store shows.
RunIds == 1..Len(runs)

ProgressStatus(rid, s) ==
    IF HasProgress(progress, rid, s)
    THEN progress[CHOOSE i \in 1..Len(progress) :
            progress[i].run_id = rid /\ progress[i].stock_code = s].status
    ELSE "absent"

IsCompleted(rid, s) == ProgressStatus(rid, s) = "completed"

MetricsVisible(rid, s) ==
    \E e \in BagToSet(metrics) : e[1] = rid /\ e[3] = s

TradesVisible(rid, s) ==
    \E e \in BagToSet(trades) : e[1] = rid /\ e[3] = s

\* The (param_id, stock_code, metric) rows stored under a run.
MetricsOf(rid) ==
    {<<e[2], e[3], e[4]>> : e \in {x \in BagToSet(metrics) : x[1] = rid}}

\* The payload the worker computes for an instrument of the run.
Payload(s) == process_stock_worker(s, hasBars[s], store_trades)

\* Every row of the payload of s is stored under rid.
PayloadPersisted(rid, s) ==
    /\ \A k \in 1..Len(Payload(s).metrics_rows) :
          (<<rid>> \o Payload(s).metrics_rows[k]) \in BagToSet(metrics)
    /\ \A k \in 1..Len(Payload(s).trade_rows) :
          (<<rid>> \o Payload(s).trade_rows[k]) \in BagToSet(trades)

\* The metrics table of one uninterrupted serial run over a list of instruments.
RECURSIVE SingleShotMetrics(_, _, _)
SingleShotMetrics(tbl, rid, ss) ==
    IF ss = <<>> THEN tbl
    ELSE SingleShotMetrics(
            insert_metrics_batch(tbl, rid, Payload(Head(ss)).metrics_rows),
            rid, Tail(ss))

UninterruptedMetrics == SingleShotMetrics(EmptyBag, 1, stocks)

\* C1: when a run reaches completion, whatever interruptions and resumptions
\* came before, its metrics table is the one a single uninterrupted run
\* produces.
C1_ResumeCorrectness ==
    retval \in {"completed", "already_complete"} =>
        metrics = UninterruptedMetrics

\* A run that was interrupted after an instrument's trades were stored, was
\* resumed, re-processed that instrument and completed.
C1_Witness ==
    /\ retval = "completed"
    /\ invocations >= 2
    /\ everInterrupted
    /\ metrics # EmptyBag
    /\ \E e \in BagToSet(trades) : CopiesIn(e, trades) >= 2

\* C2: for every number of workers and every arrival order of the payloads, a
\* completed run stores the same set of (param, instrument, metrics) rows as
\* the serial run.
C2_ParallelInvariance ==
    \A rid \in RunIds :
        runs[rid].status = "completed" =>
            MetricsOf(rid) =
                {<<e[2], e[3], e[4]>> : e \in BagToSet(UninterruptedMetrics)}

\* A parallel run in which a later instrument's payload arrived before an
\* earlier one's, completed.
C2_Witness ==
    /\ workers >= 2
    /\ outOfOrder
    /\ pc = "run_done"
    /\ runs[run_id].status = "completed"
    /\ \A s \in Range(stocks) : hasBars[s] /\ MetricsVisible(run_id, s)

\* C3: an instrument the progress table shows as completed has all of its
\* payload stored; a half-persisted instrument is never shown as completed.
C3_CompletedImpliesPersisted ==
    \A i \in 1..Len(progress) :
        progress[i].status = "completed" =>
            PayloadPersisted(progress[i].run_id, progress[i].stock_code)

\* A process killed between the metrics insert of one instrument and its
\* completion mark, after another instrument was completed.
C3_Witness ==
    /\ pc = "killed"
    /\ store_trades
    /\ \E s \in Range(stocks) : hasBars[s] /\ IsCompleted(1, s)
    /\ \E s \in Range(stocks) :
          /\ ProgressStatus(1, s) = "in_progress"
          /\ MetricsVisible(1, s)
          /\ ~PayloadPersisted(1, s)

\* C4: the four effects of persisting one instrument (metrics rows, trade
\* rows, completion mark, run counters) are visible all together or not at
\* all.
C4_AtomicPersist ==
    \A rid \in RunIds :
        /\ runs[rid].stocks_completed =
              Cardinality({s \in Range(stocks) : IsCompleted(rid, s)})
        /\ \A s \in Range(stocks) :
              hasBars[s] =>
                  \/ /\ MetricsVisible(rid, s)
                     /\ PayloadPersisted(rid, s)
                     /\ IsCompleted(rid, s)
                  \/ /\ ~MetricsVisible(rid, s)
                     /\ ~TradesVisible(rid, s)
                     /\ ~IsCompleted(rid, s)

\* No (run, param, instrument) has more than one metrics row.
AtMostOneRowPerKey ==
    /\ \A e \in BagToSet(metrics) : CopiesIn(e, metrics) = 1
    /\ \A e1, e2 \in BagToSet(metrics) :
          MetricsKey(e1) = MetricsKey(e2) => e1 = e2

HasRow(rid, p, s) ==
    \E e \in BagToSet(metrics) : MetricsKey(e) = <<rid, p, s>>

\* C5 as stated: at most one metrics row per (run, param, instrument), and
\* once the instrument is completed exactly one row per parameter set.
C5_ExactlyOnce ==
    /\ AtMostOneRowPerKey
    /\ \A rid \in RunIds : \A s \in Range(stocks) :
          IsCompleted(rid, s) =>
              \A p \in Range(params_list) : HasRow(rid, p, s)

\* C5: at most one metrics row per (run, param, instrument); once the
\* instrument is completed there is exactly one row per parameter set if the
\* loader found bars for it and no row if it found none.
C5_ExactlyOnceWithBars ==
    /\ AtMostOneRowPerKey
    /\ \A rid \in RunIds : \A s \in Range(stocks) :
          IsCompleted(rid, s) =>
              IF hasBars[s]
              THEN \A p \in Range(params_list) : HasRow(rid, p, s)
              ELSE ~MetricsVisible(rid, s)

\* A resumed run that re-inserted the rows of an instrument (its trades are
\* stored twice) and completed it, next to a completed instrument without
\* bars.
C5_Witness ==
    /\ invocations >= 2
    /\ \E s \in Range(stocks) : ~hasBars[s] /\ IsCompleted(1, s)
    /\ \E s \in Range(stocks) :
          /\ hasBars[s]
          /\ IsCompleted(1, s)
          /\ \E e \in BagToSet(trades) : e[3] = s /\ CopiesIn(e, trades) >= 2

\* C6: when a task raises an unexpected exception, the instrument's progress
\* goes back to 'pending' and the orchestrator goes on instead of leaving
\* through the exception handler.
C6_WorkerErrorRequeued ==
    failed # {} =>
        /\ pc # "handler_exc"
        /\ \A s \in failed : ProgressStatus(run_id, s) = "pending"

\* C7: once the interrupt has reached the orchestrator, the run is eventually
\* marked 'interrupted' and run() has returned, and from the interrupt on no
\* instrument is started or persisted.
C7_InterruptMarksRun ==
    /\ (pc = "handler_kbd") ~>
          (pc = "returned" /\ retval = "interrupted"
                           /\ runs[1].status = "interrupted")
    /\ [][(pc = "handler_kbd" \/ pc' = "handler_kbd") =>
            /\ progress' = progress
            /\ metrics' = metrics
            /\ inflight' = {}
            /\ \A s \in Range(stocks) : dispatched'[s] <= dispatched[s]]_vars

\* An interrupted parallel run that has returned, with an instrument left
\* 'in_progress' and another one completed.
C7_Witness ==
    /\ pc = "returned"
    /\ retval = "interrupted"
    /\ workers >= 2
    /\ runs[1].status = "interrupted"
    /\ \E s \in Range(stocks) : ProgressStatus(1, s) = "in_progress"
    /\ \E s \in Range(stocks) : IsCompleted(1, s)

\* C8: in parallel mode, when the interrupt handler is about to mark the run,
\* every payload that was in flight at the interrupt has been received and
\* persisted.
C8_DrainOnInterrupt ==
    (pc = "handler_kbd" /\ workers > 1) =>
        \A s \in inflightAtIntr :
            IsCompleted(run_id, s) /\ PayloadPersisted(run_id, s)

C10_NoBarsCompleted ==
    /\ \A r \in results \cup {result} :
          (r.stock_code \in Range(stocks) /\ ~hasBars[r.stock_code]) =>
              /\ r.total_trades = 0
              /\ r.metrics_rows = <<>>
              /\ r.trade_rows = <<>>
    /\ \A s \in Range(stocks) :
          (/\ ~hasBars[s]
           /\ \/ pc \in {"run_complete", "run_done"}
              \/ pc \in {"ser_update", "par_update"} /\ result.stock_code = s)
          => /\ \A i \in 1..Len(progress) :
                   (progress[i].run_id = run_id /\ progress[i].stock_code = s)
                   => /\ progress[i].status = "completed"
                      /\ progress[i].total_trades_found = 0
                      /\ progress[i].combos_tested = 0
             /\ ~MetricsVisible(run_id, s)
             /\ failed = {}

\* A first run over an instrument without bars and one with bars, completed.
C10_Witness ==
    /\ pc = "run_done"
    /\ invocations = 1
    /\ Len(stocks) >= 2
    /\ ~hasBars[stocks[1]]
    /\ IsCompleted(run_id, stocks[1])
    /\ hasBars[stocks[2]]
    /\ IsCompleted(run_id, stocks[2])
    /\ MetricsVisible(run_id, stocks[2])
    /\ runs[run_id].status = "completed"

\* The progress rows stored under a run.
ProgressOf(tbl, rid) == {i \in 1..Len(tbl) : tbl[i].run_id = rid}

\* C11: create_run returns a fresh run_id and leaves the new run with exactly
\* one 'pending' progress row per given instrument (and no other row), and it
\* adds or changes no progress row under any other run_id.
C11_CreateRunInitializesProgress ==
    [][pc = "create_run_progress" =>
        /\ run_id' = Len(runs)
        /\ \A s \in Range(stocks) :
              Cardinality({i \in ProgressOf(progress', run_id') :
                              progress'[i].stock_code = s}) = 1
        /\ \A i \in ProgressOf(progress', run_id') :
              /\ progress'[i].status = "pending"
              /\ progress'[i].stock_code \in Range(stocks)
        /\ {progress'[i] : i \in {j \in 1..Len(progress') :
                                     progress'[j].run_id # run_id'}}
           = {progress[i] : i \in {j \in 1..Len(progress) :
                                     progress[j].run_id # run_id'}}]_vars

\* C12: the two inserts are idempotent on their natural keys.  On every table
\* the store can hold and for every argument list, calling
\* insert_metrics_batch twice with the same (run_id, rows), or
\* insert_params_batch twice with the same params, gives the table that one
\* call gives; and every row that was in the table before the call is in
\* it afterwards, unchanged and once, so a row whose key exists is never
\* overwritten and no key is ever held by two rows.
C12_InsertsIdempotent ==
    /\ AtMostOneRowPerKey
    /\ \A r1, r2 \in params : r1[1] = r2[1] => r1 = r2
    /\ \A rid \in StoreRunIds, rows \in MetricRowLists :
          LET once == insert_metrics_batch(metrics, rid, rows)
          IN /\ insert_metrics_batch(once, rid, rows) = once
             /\ \A e \in BagToSet(metrics) : CopiesIn(e, once) = 1
             /\ \A e \in BagToSet(once) :
                   \/ e \in BagToSet(metrics)
                   \/ ~\E o \in BagToSet(metrics) : MetricsKey(o) = MetricsKey(e)
    /\ \A ps \in ParamLists :
          LET once == insert_params_batch(params, ps)
          IN /\ insert_params_batch(once, ps) = once
             /\ params \subseteq once
             /\ \A e \in once \ params : ~\E o \in params : o[1] = e[1]

\* A call offered a metrics row whose key the table held with another value:
\* the table still holds the older row, and likewise a params row whose id
\* belongs to another object.
C12_Witness ==
    /\ call.op = "insert_metrics_batch"
    /\ \E r \in call.ignored : \E e \in BagToSet(metrics) :
          MetricsKey(e) = MetricsKey(r) /\ e[4] # r[4]
    /\ \E o \in params : \E p \in 1..NParamObjects :
          param_id(p) = o[1] /\ to_json(p) # o[2]

\* The recorded calls of the limiter that are inside the window ending at t.
InWindow(ts, t) == {i \in 1..Len(ts) : t - ts[i] < WindowTicks}

\* C13: the sliding-window cap.  With every request preceded by a
\* wait_if_needed that returned True and followed by record_call, the window
\* that ends at any time holds at most calls_per_minute recorded calls;
\* wait_if_needed returns True only when the window holds fewer than
\* calls_per_minute of them; when the cap is reached (and the day cap is not)
\* it sleeps, and the sleep ends only after the oldest recorded call has left
\* the window.
C13_SlidingWindowCap ==
    /\ [](Cardinality(InWindow(timestamps, now)) <= limits.calls_per_minute)
    /\ [][(dl.pc = "wait" /\ dl'.pc = "fetch") =>
            Cardinality(InWindow(timestamps, now)) < limits.calls_per_minute]_vars
    /\ [][(/\ dl.pc = "wait" /\ dl' # dl
           /\ usage[today] < limits.calls_per_day
           /\ Cardinality(InWindow(timestamps, now))
                 >= limits.calls_per_minute) =>
            dl'.pc = "sleeping"]_vars
    /\ [][(dl.pc = "sleeping" /\ dl'.pc # "sleeping") =>
            now' - Head(timestamps) >= WindowTicks]_vars

\* wait_if_needed found the cap of two calls reached, slept, and returned
\* True.
C13_Witness ==
    /\ dl.pc = "fetch"
    /\ dl.waited
    /\ limits.calls_per_minute = 2
    /\ Len(timestamps) >= 1

\* C14: the day cap.  When wait_if_needed is called with the persisted count
\* of the day at or above calls_per_day it returns False at once (no sleep,
\* no time passes), whichever limiter instance asks; the downloader saves the
\* instrument's progress as in_progress with the chunks it has, and sends no
\* request and records no call in the rest of that session.
C14_DayCap ==
    /\ [][(/\ dl.pc = "wait" /\ dl' # dl
           /\ usage[today] >= limits.calls_per_day) =>
            /\ dl'.pc = "daily_limit"
            /\ now' = now
            /\ download_progress'[Head(dl.queue)].status = "in_progress"
            /\ download_progress'[Head(dl.queue)].done =
                  download_progress[Head(dl.queue)].done]_vars
    /\ [][(dl.pc = "daily_limit" /\ dl'.session = dl.session) =>
            dl' = dl /\ usage' = usage /\ timestamps' = timestamps]_vars

\* A process started after a restart, on a day whose count had reached the
\* cap: its new limiter has recorded no call and has returned False.
C14_Witness ==
    /\ dl.session >= 2
    /\ dl.pc = "daily_limit"
    /\ timestamps = <<>>
    /\ usage[today] >= limits.calls_per_day

\* C15: calls_made counts requests.  When a chunk's fetch is recorded,
\* calls_made of the day grows by the number of requests that were sent for
\* the chunk, the first attempt and every retry.
C15_BudgetCountsRequests ==
    [][(dl.pc = "record" /\ dl'.pc # "record") =>
          usage'[today] = usage[today] + dl.attempt + 1]_vars

\* C16: an unknown enum value in a filter is reported as an error, and the
\* invocation that supplied it creates no run row and no progress row.
C16_UnknownEnumRejected ==
    (/\ call.op = "run_backtest"
     /\ call.sl_types = "unknown" \/ call.directions = "unknown") =>
        /\ ret = "ValueError"
        /\ Len(runs) = call.runs
        /\ Len(progress) = call.progress

\* C17: a ranking query called with a metric name outside the allowlist of
\* metric columns is rejected, and no statement built from that name is
\* executed.
C17_MetricAllowlist ==
    (call.op \in RankingQueries /\ call.metric \notin MetricColumns) =>
        /\ ret.outcome = "rejected"
        /\ ret.executed = <<>>

C20_CompletedRunHasOnlyCompletedRows ==
    \A rid \in RunIds :
        runs[rid].status = "completed" =>
            \A i \in ProgressOf(progress, rid) : progress[i].status = "completed"

\* ------------------------------------------------- the simulation kernel
\* Prices are integers; bar prices are multiples of 4 and the trailing
\* percentage is 0 or 50, so that every product with (1 -/+ pct/100) is an
\* integer and the kernel's arithmetic is exact.  Indices into a day cache
\* are 0-based as in the source; element i of an array is seq[i + 1].
MaxBars == 3
MaxDayBars == 2

FirstIdx_last(I) == IF I = {} THEN -1 ELSE CHOOSE i \in I : \A j \in I : i >= j

\* np.where(mask)[0][0] if the mask holds anywhere, else -1.
FirstIdx(I) == IF I = {} THEN -1 ELSE CHOOSE i \in I : \A j \in I : i <= j

\* The DayCache _build_day_caches builds for one trading day from the day's
\* candles between the end of the opening range and the exit time.
DayCache(date_str, bars, or_high, or_low, or_avg_vol) ==
    LET n == Len(bars)
        I == 0..(n - 1)
        highs == [i \in 1..n |-> bars[i].high]
        lows == [i \in 1..n |-> bars[i].low]
        closes == [i \in 1..n |-> bars[i].close]
        volumes == [i \in 1..n |-> bars[i].volume]
    IN  [date_str |-> date_str,
         highs |-> highs, lows |-> lows, closes |-> closes,
         volumes |-> volumes, n_candles |-> n,
         first_long_imm_idx |-> FirstIdx({i \in I : highs[i + 1] > or_high}),
         first_short_imm_idx |-> FirstIdx({i \in I : lows[i + 1] < or_low}),
         first_long_close_idx |->
             FirstIdx({i \in I : closes[i + 1] > or_high}),
         first_short_close_idx |->
             FirstIdx({i \in I : closes[i + 1] < or_low}),
         first_long_vol_idx |->
             IF or_avg_vol > 0
             THEN FirstIdx({i \in I : /\ closes[i + 1] > or_high
                                      /\ 2 * volumes[i + 1] > 3 * or_avg_vol})
             ELSE -1,
         first_short_vol_idx |->
             IF or_avg_vol > 0
             THEN FirstIdx({i \in I : /\ closes[i + 1] < or_low
                                      /\ 2 * volumes[i + 1] > 3 * or_avg_vol})
             ELSE -1]

\* _build_day_caches over the view's trading days.  The time of a day's
\* candle is its position in the day, so the candles between the end of the
\* opening range and the exit time are a slice of the day's candles.
_build_day_caches(stock_data, or_data, or_end_time_str, exit_time_str) ==
    LET days == stock_data.trading_days
        indices(date_str) ==
            {i \in 1..Len(stock_data.day_groups[date_str]) :
                i >= or_end_time_str /\ i <= exit_time_str}
        skipped(date_str) ==
            \/ date_str \notin DOMAIN or_data
            \/ date_str \notin DOMAIN stock_data.day_groups
            \/ stock_data.day_groups[date_str] = <<>>
            \/ indices(date_str) = {}
        cache(date_str) ==
            LET day_df == stock_data.day_groups[date_str]
                lo == CHOOSE i \in indices(date_str) :
                          \A j \in indices(date_str) : i <= j
                hi == CHOOSE i \in indices(date_str) :
                          \A j \in indices(date_str) : i >= j
            IN  DayCache(date_str, SubSeq(day_df, lo, hi),
                         or_data[date_str][1], or_data[date_str][2],
                         or_data[date_str][3])
        caches[k \in 0..Len(days)] ==
            IF k = 0 THEN <<>>
            ELSE IF skipped(days[k]) THEN caches[k - 1]
            ELSE Append(caches[k - 1], cache(days[k]))
    IN  caches[Len(days)]

\* _find_entry returns None when no admissible signal fired: the record with
\* direction "None".
_find_entry_tieShort(dc, or_high, or_low, or_avg_vol, confirmation, allow_long, allow_short) ==
    LET idx_of(side) ==
            IF confirmation = "immediate" THEN
                IF side = "LONG" THEN dc.first_long_imm_idx
                                 ELSE dc.first_short_imm_idx
            ELSE IF confirmation = "candle_close" THEN
                IF side = "LONG" THEN dc.first_long_close_idx
                                 ELSE dc.first_short_close_idx
            ELSE
                IF side = "LONG" THEN dc.first_long_vol_idx
                                 ELSE dc.first_short_vol_idx
        long_idx == IF allow_long THEN idx_of("LONG") ELSE -1
        short_idx == IF allow_short THEN idx_of("SHORT") ELSE -1
        entry(side, k) ==
            [direction |-> side,
             entry_price |->
                 IF confirmation = "immediate"
                 THEN (IF side = "LONG" THEN or_high ELSE or_low)
                 ELSE dc.closes[k + 1],
             entry_idx |-> k]
    IN  IF long_idx >= 0 /\ short_idx >= 0 THEN
            IF long_idx < short_idx THEN entry("LONG", long_idx)
                                    ELSE entry("SHORT", short_idx)
        ELSE IF long_idx >= 0 THEN entry("LONG", long_idx)
        ELSE IF short_idx >= 0 THEN entry("SHORT", short_idx)
        ELSE [direction |-> "None"]

_find_entry(dc, or_high, or_low, or_avg_vol, confirmation, allow_long, allow_short) ==
    LET idx_of(side) ==
            IF confirmation = "immediate" THEN
                IF side = "LONG" THEN dc.first_long_imm_idx
                                 ELSE dc.first_short_imm_idx
            ELSE IF confirmation = "candle_close" THEN
                IF side = "LONG" THEN dc.first_long_close_idx
                                 ELSE dc.first_short_close_idx
            ELSE
                IF side = "LONG" THEN dc.first_long_vol_idx
                                 ELSE dc.first_short_vol_idx
        long_idx == IF allow_long THEN idx_of("LONG") ELSE -1
        short_idx == IF allow_short THEN idx_of("SHORT") ELSE -1
        entry(side, k) ==
            [direction |-> side,
             entry_price |->
                 IF confirmation = "immediate"
                 THEN (IF side = "LONG" THEN or_high ELSE or_low)
                 ELSE dc.closes[k + 1],
             entry_idx |-> k]
    IN  IF long_idx >= 0 /\ short_idx >= 0 THEN
            IF long_idx <= short_idx THEN entry("LONG", long_idx)
                                     ELSE entry("SHORT", short_idx)
        ELSE IF long_idx >= 0 THEN entry("LONG", long_idx)
        ELSE IF short_idx >= 0 THEN entry("SHORT", short_idx)
        ELSE [direction |-> "None"]

\* The exit a search returns: (exit_price, exit_idx, exit_reason, sl_final).
Exit(price, i, reason, sl) ==
    [exit_price |-> price, exit_idx |-> i, exit_reason |-> reason,
     sl_final |-> sl]

\* The first bar at or after start whose low (LONG) or high (SHORT) reaches
\* the stop, and the first whose high (LONG) or low (SHORT) reaches a
\* positive target; -1 when there is none.
first_sl_hit(dc, direction, start, stop_loss) ==
    FirstIdx({i \in start..(dc.n_candles - 1) :
                 IF direction = "LONG" THEN dc.lows[i + 1] <= stop_loss
                                       ELSE dc.highs[i + 1] >= stop_loss})

first_tgt_hit(dc, direction, start, target_price) ==
    IF target_price > 0
    THEN FirstIdx({i \in start..(dc.n_candles - 1) :
                      IF direction = "LONG"
                      THEN dc.highs[i + 1] >= target_price
                      ELSE dc.lows[i + 1] <= target_price})
    ELSE -1

_find_exit_vectorized_tieTarget(dc, direction, entry_idx, stop_loss, target_price) ==
    LET start == entry_idx + 1
        sl_idx == first_sl_hit(dc, direction, start, stop_loss)
        tgt_idx == first_tgt_hit(dc, direction, start, target_price)
        last_idx == dc.n_candles - 1
    IN  IF start >= dc.n_candles THEN
            Exit(dc.closes[entry_idx + 1], entry_idx, "time_exit", stop_loss)
        ELSE IF sl_idx >= 0 /\ tgt_idx >= 0 THEN
            IF sl_idx < tgt_idx
            THEN Exit(stop_loss, sl_idx, "stop_loss", stop_loss)
            ELSE Exit(target_price, tgt_idx, "target", stop_loss)
        ELSE IF sl_idx >= 0 THEN
            Exit(stop_loss, sl_idx, "stop_loss", stop_loss)
        ELSE IF tgt_idx >= 0 THEN
            Exit(target_price, tgt_idx, "target", stop_loss)
        ELSE Exit(dc.closes[last_idx + 1], last_idx, "time_exit", stop_loss)

_find_exit_vectorized_fromEntryBar(dc, direction, entry_idx, stop_loss, target_price) ==
    LET start == entry_idx
        sl_idx == first_sl_hit(dc, direction, start, stop_loss)
        tgt_idx == first_tgt_hit(dc, direction, start, target_price)
        last_idx == dc.n_candles - 1
    IN  IF sl_idx >= 0 /\ tgt_idx >= 0 THEN
            IF sl_idx <= tgt_idx
            THEN Exit(stop_loss, sl_idx, "stop_loss", stop_loss)
            ELSE Exit(target_price, tgt_idx, "target", stop_loss)
        ELSE IF sl_idx >= 0 THEN
            Exit(stop_loss, sl_idx, "stop_loss", stop_loss)
        ELSE IF tgt_idx >= 0 THEN
            Exit(target_price, tgt_idx, "target", stop_loss)
        ELSE Exit(dc.closes[last_idx + 1], last_idx, "time_exit", stop_loss)

_find_exit_vectorized_timeExitAtEntry(dc, direction, entry_idx, stop_loss, target_price) ==
    LET start == entry_idx + 1
        sl_idx == first_sl_hit(dc, direction, start, stop_loss)
        tgt_idx == first_tgt_hit(dc, direction, start, target_price)
        last_idx == dc.n_candles - 1
    IN  IF start >= dc.n_candles THEN
            Exit(dc.closes[entry_idx + 1], entry_idx, "time_exit", stop_loss)
        ELSE IF sl_idx >= 0 /\ tgt_idx >= 0 THEN
            IF sl_idx <= tgt_idx
            THEN Exit(stop_loss, sl_idx, "stop_loss", stop_loss)
            ELSE Exit(target_price, tgt_idx, "target", stop_loss)
        ELSE IF sl_idx >= 0 THEN
            Exit(stop_loss, sl_idx, "stop_loss", stop_loss)
        ELSE IF tgt_idx >= 0 THEN
            Exit(target_price, tgt_idx, "target", stop_loss)
        ELSE Exit(dc.closes[entry_idx + 1], last_idx, "time_exit", stop_loss)

_find_exit_vectorized(dc, direction, entry_idx, stop_loss, target_price) ==
    LET start == entry_idx + 1
        sl_idx == first_sl_hit(dc, direction, start, stop_loss)
        tgt_idx == first_tgt_hit(dc, direction, start, target_price)
        last_idx == dc.n_candles - 1
    IN  IF start >= dc.n_candles THEN
            Exit(dc.closes[entry_idx + 1], entry_idx, "time_exit", stop_loss)
        ELSE IF sl_idx >= 0 /\ tgt_idx >= 0 THEN
            IF sl_idx <= tgt_idx
            THEN Exit(stop_loss, sl_idx, "stop_loss", stop_loss)
            ELSE Exit(target_price, tgt_idx, "target", stop_loss)
        ELSE IF sl_idx >= 0 THEN
            Exit(stop_loss, sl_idx, "stop_loss", stop_loss)
        ELSE IF tgt_idx >= 0 THEN
            Exit(target_price, tgt_idx, "target", stop_loss)
        ELSE Exit(dc.closes[last_idx + 1], last_idx, "time_exit", stop_loss)

\* The top of the loop body of the trailing search: the running peak and the
\* stop after bar (c_high, c_low) has been looked at.
ratchet_unguarded(direction, peak, sl, c_high, c_low, trailing_pct) ==
    IF direction = "LONG" THEN
        IF c_high > peak
        THEN [peak |-> c_high, sl |-> (c_high * (100 - trailing_pct)) \div 100]
        ELSE [peak |-> peak, sl |-> sl]
    ELSE
        IF c_low < peak
        THEN [peak |-> c_low, sl |-> (c_low * (100 + trailing_pct)) \div 100]
        ELSE [peak |-> peak, sl |-> sl]

ratchet(direction, peak, sl, c_high, c_low, trailing_pct) ==
    IF direction = "LONG" THEN
        IF c_high > peak THEN
            LET new_sl == (c_high * (100 - trailing_pct)) \div 100
            IN  [peak |-> c_high, sl |-> IF new_sl > sl THEN new_sl ELSE sl]
        ELSE [peak |-> peak, sl |-> sl]
    ELSE
        IF c_low < peak THEN
            LET new_sl == (c_low * (100 + trailing_pct)) \div 100
            IN  [peak |-> c_low, sl |-> IF new_sl < sl THEN new_sl ELSE sl]
        ELSE [peak |-> peak, sl |-> sl]

\* The loop of the trailing search from bar i on, with the peak and the stop
\* the earlier bars left.
RECURSIVE trailing_loop(_, _, _, _, _, _, _)
trailing_loop(dc, direction, target_price, trailing_pct, i, peak, sl) ==
    IF i >= dc.n_candles THEN
        Exit(dc.closes[dc.n_candles], dc.n_candles - 1, "time_exit", sl)
    ELSE
        LET c_high == dc.highs[i + 1]
            c_low == dc.lows[i + 1]
            r == ratchet(direction, peak, sl, c_high, c_low, trailing_pct)
            sl_hit == IF direction = "LONG" THEN c_low <= r.sl
                                            ELSE c_high >= r.sl
            tgt_hit == /\ target_price > 0
                       /\ IF direction = "LONG" THEN c_high >= target_price
                                                ELSE c_low <= target_price
        IN  IF sl_hit /\ tgt_hit THEN Exit(r.sl, i, "stop_loss", r.sl)
            ELSE IF sl_hit THEN Exit(r.sl, i, "stop_loss", r.sl)
            ELSE IF tgt_hit THEN Exit(target_price, i, "target", r.sl)
            ELSE trailing_loop(dc, direction, target_price, trailing_pct,
                               i + 1, r.peak, r.sl)

_find_exit_trailing(dc, direction, entry_idx, stop_loss, target_price, trailing_pct) ==
    IF entry_idx + 1 >= dc.n_candles THEN
        Exit(dc.closes[entry_idx + 1], entry_idx, "time_exit", stop_loss)
    ELSE trailing_loop(dc, direction, target_price, trailing_pct,
                       entry_idx + 1,
                       IF direction = "LONG" THEN dc.highs[entry_idx + 1]
                                             ELSE dc.lows[entry_idx + 1],
                       stop_loss)

_initial_stop_loss_noFallback(direction, entry_price, or_high, or_low, atr_value, strategy_params) ==
    IF strategy_params.stop_loss_type = "fixed" THEN
        IF direction = "LONG" THEN or_low ELSE or_high
    ELSE IF strategy_params.stop_loss_type = "trailing" THEN
        IF direction = "LONG"
        THEN (entry_price * (100 - strategy_params.trailing_stop_pct)) \div 100
        ELSE (entry_price * (100 + strategy_params.trailing_stop_pct)) \div 100
    ELSE IF strategy_params.stop_loss_type = "atr_based" THEN
        IF direction = "LONG"
        THEN entry_price - atr_value * strategy_params.atr_multiplier
        ELSE entry_price + atr_value * strategy_params.atr_multiplier
    ELSE IF direction = "LONG" THEN or_low ELSE or_high

_initial_stop_loss(direction, entry_price, or_high, or_low, atr_value, strategy_params) ==
    IF strategy_params.stop_loss_type = "fixed" THEN
        IF direction = "LONG" THEN or_low ELSE or_high
    ELSE IF strategy_params.stop_loss_type = "trailing" THEN
        IF direction = "LONG"
        THEN (entry_price * (100 - strategy_params.trailing_stop_pct)) \div 100
        ELSE (entry_price * (100 + strategy_params.trailing_stop_pct)) \div 100
    ELSE IF strategy_params.stop_loss_type = "atr_based" THEN
        IF atr_value > 0 THEN
            IF direction = "LONG"
            THEN entry_price - atr_value * strategy_params.atr_multiplier
            ELSE entry_price + atr_value * strategy_params.atr_multiplier
        ELSE IF direction = "LONG" THEN or_low ELSE or_high
    ELSE IF direction = "LONG" THEN or_low ELSE or_high

\* The position size of a candidate with a positive risk per share.
quantity_max(sim, entry_price, risk_per_share) ==
    LET a == sim.max_risk_per_trade \div risk_per_share
        b == IF entry_price > 0 THEN sim.capital \div entry_price ELSE 0
    IN  IF a >= b THEN a ELSE b

quantity(sim, entry_price, risk_per_share) ==
    LET a == sim.max_risk_per_trade \div risk_per_share
        b == IF entry_price > 0 THEN sim.capital \div entry_price ELSE 0
    IN  IF a <= b THEN a ELSE b

\* The trades run_with_caches appends for one DayCache: none or one.  A Trade
\* keeps the bar indices where the source keeps the bars' datetimes.
day_trades(sim, daily_atr, strategy_params, or_data, dc) ==
    LET allow_long == strategy_params.trade_direction \in {"long_only", "both"}
        allow_short == strategy_params.trade_direction \in {"short_only", "both"}
        is_trailing == strategy_params.stop_loss_type = "trailing"
        or_info == or_data[dc.date_str]
        or_high == or_info[1]
        or_low == or_info[2]
        or_avg_vol == or_info[3]
        or_pct == or_info[4]
        entry_result == _find_entry(dc, or_high, or_low, or_avg_vol,
                                    strategy_params.entry_confirmation,
                                    allow_long, allow_short)
        direction == entry_result.direction
        entry_price == entry_result.entry_price
        entry_idx == entry_result.entry_idx
        atr_value == IF dc.date_str \in DOMAIN daily_atr
                     THEN daily_atr[dc.date_str] ELSE 0
        stop_loss == _initial_stop_loss(direction, entry_price, or_high,
                                        or_low, atr_value, strategy_params)
        risk_per_share == IF entry_price >= stop_loss
                          THEN entry_price - stop_loss
                          ELSE stop_loss - entry_price
        qty == quantity(sim, entry_price, risk_per_share)
        target_price ==
            IF strategy_params.target_multiplier > 0 THEN
                IF direction = "LONG"
                THEN entry_price + risk_per_share * strategy_params.target_multiplier
                ELSE entry_price - risk_per_share * strategy_params.target_multiplier
            ELSE 0
        exit_result ==
            IF is_trailing
            THEN _find_exit_trailing(dc, direction, entry_idx, stop_loss,
                                     target_price, strategy_params.trailing_stop_pct)
            ELSE _find_exit_vectorized(dc, direction, entry_idx, stop_loss,
                                       target_price)
    IN  IF strategy_params.max_or_filter_pct > 0 /\ or_pct > strategy_params.max_or_filter_pct
        THEN <<>>
        ELSE IF entry_result.direction = "None" THEN <<>>
        ELSE IF risk_per_share <= 0 THEN <<>>
        ELSE IF qty <= 0 THEN <<>>
        ELSE <<[date |-> dc.date_str, direction |-> direction,
                entry_idx |-> entry_idx, entry_price |-> entry_price,
                exit_idx |-> exit_result.exit_idx,
                exit_price |-> exit_result.exit_price,
                quantity |-> qty, stop_loss_initial |-> stop_loss,
                stop_loss_final |-> exit_result.sl_final,
                target_price |-> target_price,
                or_high |-> or_high, or_low |-> or_low,
                exit_reason |-> exit_result.exit_reason,
                risk_amount |-> risk_per_share * qty]>>

\* Faulty variant: each day's trades go in front of the earlier days'.
run_with_caches_newestFirst(sim, daily_atr, strategy_params, or_data, day_caches) ==
    LET found[k \in 0..Len(day_caches)] ==
            IF k = 0 THEN <<>>
            ELSE day_trades(sim, daily_atr, strategy_params, or_data,
                            day_caches[k]) \o found[k - 1]
    IN  found[Len(day_caches)]

RECURSIVE run_with_caches(_, _, _, _, _)
run_with_caches(sim, daily_atr, strategy_params, or_data, day_caches) ==
    IF day_caches = <<>> THEN <<>>
    ELSE day_trades(sim, daily_atr, strategy_params, or_data, Head(day_caches))
             \o run_with_caches(sim, daily_atr, strategy_params, or_data,
                                Tail(day_caches))

\* The view's daily ATR.  A value is the exact fraction num / den, so that
\* the averages and Wilder's smoothing lose nothing; the view's trading days
\* are 1, 2, ... in order.
MaxAtrDays == 3

_compute_daily_atr(day_groups, trading_days, period) ==
    LET n == Len(trading_days)
        high(i) == LET df == day_groups[trading_days[i]]
                   IN  CHOOSE h \in {df[j].high : j \in 1..Len(df)} :
                           \A j \in 1..Len(df) : df[j].high <= h
        low(i) == LET df == day_groups[trading_days[i]]
                  IN  CHOOSE l \in {df[j].low : j \in 1..Len(df)} :
                          \A j \in 1..Len(df) : df[j].low >= l
        close(i) == LET df == day_groups[trading_days[i]]
                    IN  df[Len(df)].close
        dist(a, b) == IF a >= b THEN a - b ELSE b - a
        max3(a, b, c) == IF a >= b /\ a >= c THEN a
                         ELSE IF b >= c THEN b ELSE c
        tr(i) == IF i = 1 THEN high(i) - low(i)
                 ELSE max3(high(i) - low(i), dist(high(i), close(i - 1)),
                           dist(low(i), close(i - 1)))
        sum[k \in 0..n] == IF k = 0 THEN 0 ELSE sum[k - 1] + tr(k)
        atr[i \in period..n] ==
            IF i = period THEN [num |-> sum[period], den |-> period]
            ELSE [num |-> atr[i - 1].num * (period - 1)
                              + tr(i) * atr[i - 1].den,
                  den |-> atr[i - 1].den * period]
    IN  IF n < period + 1 THEN <<>>
        ELSE [i \in 1..n |-> IF i <= period THEN [num |-> sum[i], den |-> i]
                                            ELSE atr[i]]

\* _compute_calmar.  A trade's date is a day number, -1 a date strptime
\* rejects; the ratio is the exact fraction num / den, 365.25 days being
\* 1461 / 4.
_compute_calmar(pnls, dates, max_dd) ==
    LET days == dates[Len(dates)] - dates[1]
        parsed == dates[1] # -1 /\ dates[Len(dates)] # -1
        total[k \in 0..Len(pnls)] ==
            IF k = 0 THEN 0 ELSE total[k - 1] + pnls[k]
        total_return == total[Len(pnls)]
    IN  IF max_dd <= 0 \/ dates = <<>> THEN [num |-> 0, den |-> 1]
        ELSE IF parsed /\ days > 0
        THEN [num |-> total_return * 1461, den |-> 4 * days * max_dd]
        ELSE [num |-> total_return, den |-> max_dd]

\* ------------------------------------------------ the kernel's inputs
\* Candles at two price levels, with the close at the low or at the high.
Levels == {4, 12}
Candles(volumes) ==
    {[high |-> h, low |-> l, close |-> c, volume |-> v] :
        h \in Levels, l \in Levels, c \in Levels, v \in volumes} \
    {b \in [high : Levels, low : Levels, close : Levels, volume : volumes] :
        b.low > b.high \/ b.close \notin {b.low, b.high}}

\* (or_high, or_low, or_avg_vol, or_pct) of a day: a flat opening range at 8
\* and the range from 8 to 12, whose width is 40% of its midpoint.
OrInfos == {<<8, 8, v, 0>> : v \in {0, 1}} \cup {<<12, 8, 1, 40>>}

Simulators ==
    {[capital |-> 1000, max_risk_per_trade |-> 10],
     [capital |-> 20, max_risk_per_trade |-> 1000],
     [capital |-> 6, max_risk_per_trade |-> 1000],
     [capital |-> 1000, max_risk_per_trade |-> 1]}

StopConfigs ==
    {<<"fixed", 0>>, <<"trailing", 0>>, <<"trailing", 50>>, <<"atr_based", 0>>}

ParamSets ==
    {[trade_direction |-> td, entry_confirmation |-> ec,
      stop_loss_type |-> sc[1], trailing_stop_pct |-> sc[2],
      atr_multiplier |-> 1, target_multiplier |-> tm,
      max_or_filter_pct |-> f] :
        td \in {"long_only", "short_only", "both"},
        ec \in {"immediate", "candle_close"},
        sc \in StopConfigs, tm \in {0, 1}, f \in {0, 1}}

\* A call of _find_entry on a day's cache, of one of the two exit searches on
\* a cache with an entry bar, a stop and a target, of _build_day_caches on a
\* view of one day, of _compute_daily_atr on a view of one candle a day, of
\* _compute_calmar on a trade list, or of run_with_caches on one day.
KernelInit ==
    /\ RunnerIdle
    /\ DlIdle
    /\ limits = [calls_per_minute |-> 1, calls_per_day |-> 1]
    /\ ret = NoCall
    /\ \/ \E bars \in SeqsUpTo(Candles({1, 2}), MaxBars) \ {<<>>},
              oi \in OrInfos,
              ec \in {"immediate", "candle_close", "volume"},
              td \in {"long_only", "short_only", "both"} :
              call = [op |-> "_find_entry",
                      dc |-> DayCache(1, bars, oi[1], oi[2], oi[3]),
                      or_info |-> oi, confirmation |-> ec,
                      trade_direction |-> td]
       \/ \E bars \in SeqsUpTo(Candles({1}), MaxBars) \ {<<>>},
              d \in {"LONG", "SHORT"}, sl \in {4, 8, 12},
              tp \in {0, 4, 8, 12},
              sc \in StopConfigs \ {<<"atr_based", 0>>} :
              \E e \in 0..(Len(bars) - 1) :
                  call = [op |-> "_find_exit",
                          dc |-> DayCache(1, bars, 8, 8, 0),
                          direction |-> d, entry_idx |-> e,
                          stop_loss |-> sl, target_price |-> tp,
                          stop_loss_type |-> sc[1], trailing_pct |-> sc[2]]
       \/ \E bars \in SeqsUpTo(Candles({1, 2}), MaxBars) \ {<<>>},
              od \in {<<>>} \cup {<<oi>> : oi \in OrInfos},
              or_end \in {1, 2}, exit_time \in {MaxBars - 1, MaxBars} :
              call = [op |-> "_build_day_caches",
                      stock_data |-> [trading_days |-> <<1>>,
                                      day_groups |-> <<bars>>],
                      or_data |-> od, or_end_time_str |-> or_end,
                      exit_time_str |-> exit_time]
       \/ \E days \in SeqsUpTo(Candles({1}), MaxAtrDays) \ {<<>>},
              period \in {1, 2} :
              call = [op |-> "_compute_daily_atr",
                      day_groups |-> [i \in 1..Len(days) |-> <<days[i]>>],
                      trading_days |-> [i \in 1..Len(days) |-> i],
                      period |-> period]
       \/ \E pnls \in TradeLists, first \in {-1, 0},
              span \in {0, 1, 100, 365, 366, 731}, max_dd \in {0, 1, 3} :
              call = [op |-> "_compute_calmar", pnls |-> pnls,
                      dates |-> [i \in 1..Len(pnls) |->
                                    IF i = Len(pnls) /\ i > 1
                                    THEN span ELSE first],
                      max_dd |-> max_dd]
       \/ \E sim \in Simulators, atr \in {<<>>, <<0>>, <<4>>}, p \in ParamSets,
              oi \in OrInfos \ {<<8, 8, 0, 0>>},
              bars \in SeqsUpTo(Candles({2}), MaxDayBars) \ {<<>>} :
              call = [op |-> "run_with_caches", sim |-> sim,
                      daily_atr |-> atr, params |-> p, or_data |-> <<oi>>,
                      day_caches |->
                          <<DayCache(1, bars, oi[1], oi[2], oi[3])>>]

\* The kernel is applied to its input.
Simulate ==
    /\ ret = NoCall
    /\ ret' =
          IF call.op = "_find_entry" THEN
              _find_entry(call.dc, call.or_info[1], call.or_info[2],
                          call.or_info[3], call.confirmation,
                          call.trade_direction \in {"long_only", "both"},
                          call.trade_direction \in {"short_only", "both"})
          ELSE IF call.op = "_find_exit" THEN
              IF call.stop_loss_type = "trailing"
              THEN _find_exit_trailing(call.dc, call.direction, call.entry_idx,
                                       call.stop_loss, call.target_price,
                                       call.trailing_pct)
              ELSE _find_exit_vectorized(call.dc, call.direction,
                                         call.entry_idx, call.stop_loss,
                                         call.target_price)
          ELSE IF call.op = "_build_day_caches" THEN
              [caches |-> _build_day_caches(call.stock_data, call.or_data,
                                            call.or_end_time_str,
                                            call.exit_time_str)]
          ELSE IF call.op = "_compute_daily_atr" THEN
              [daily_atr |-> _compute_daily_atr(call.day_groups,
                                                call.trading_days,
                                                call.period)]
          ELSE IF call.op = "_compute_calmar" THEN
              _compute_calmar(call.pnls, call.dates, call.max_dd)
          ELSE [trades |-> run_with_caches(call.sim, call.daily_atr,
                                           call.params, call.or_data,
                                           call.day_caches)]
    /\ UNCHANGED <<cfgVars, dbVars, pc, idVars, localVars, poolVars,
                   obsVars, histVars, dlVars, call>>

KernelSpec == KernelInit /\ [][Simulate]_vars

\* ------------------------------------------- one cache group of the worker
\* run() for one parameter set on a view: it builds its own day caches.  The
\* opening range of or_minutes minutes ends at candle or_minutes + 1 of the
\* day, and exit_time is the position of the day's last candle to look at.
run(sim, stock_data, strategy_params) ==
    IF strategy_params.or_minutes \notin DOMAIN stock_data.opening_ranges
    THEN <<>>
    ELSE
        LET or_data == stock_data.opening_ranges[strategy_params.or_minutes]
            or_end_time_str == strategy_params.or_minutes + 1
            exit_time_str == strategy_params.exit_time
            day_caches == _build_day_caches(stock_data, or_data,
                                            or_end_time_str, exit_time_str)
            found[k \in 0..Len(day_caches)] ==
                IF k = 0 THEN <<>>
                ELSE found[k - 1] \o day_trades(sim, stock_data.daily_atr,
                                                strategy_params, or_data,
                                                day_caches[k])
        IN  found[Len(day_caches)]

\* The parameter sets of one (or_minutes, exit_time) group.
GroupParams(exit_time) ==
    {[or_minutes |-> 1, exit_time |-> exit_time,
      trade_direction |-> "both", entry_confirmation |-> c[1],
      stop_loss_type |-> c[2], trailing_stop_pct |-> 50,
      atr_multiplier |-> 1, target_multiplier |-> c[3],
      max_or_filter_pct |-> 0] :
        c \in {<<"immediate", "fixed", 1>>, <<"candle_close", "trailing", 0>>}}

\* The worker has loaded a view of two trading days, each an opening-range
\* candle and up to MaxDayBars later candles; the first day may lack an
\* opening range.  It holds one group of one or two parameter sets.
WorkerInit ==
    /\ RunnerIdle
    /\ DlIdle
    /\ limits = [calls_per_minute |-> 1, calls_per_day |-> 1]
    /\ ret = NoCall
    /\ \E day1, day2 \in SeqsUpTo(Candles({2}), MaxDayBars) \ {<<>>},
          ranged \in {{1, 2}, {2}},
          exit_time \in {MaxDayBars, MaxDayBars + 1} :
          \E group \in SeqsUpTo(GroupParams(exit_time), 2) \ {<<>>} :
              LET or_candle == [high |-> 8, low |-> 8, close |-> 8,
                                volume |-> 1]
              IN  call = [op |-> "worker",
                          sim |-> [capital |-> 1000, max_risk_per_trade |-> 10],
                          stock_data |->
                              [trading_days |-> <<1, 2>>,
                               day_groups |-> <<<<or_candle>> \o day1,
                                                <<or_candle>> \o day2>>,
                               daily_atr |-> <<>>,
                               opening_ranges |->
                                   <<[d \in ranged |-> <<8, 8, 1, 0>>]>>],
                          group_params |-> group,
                          built |-> FALSE,
                          day_caches |-> <<>>]

\* simulator._build_day_caches, once for the group.
WorkerBuildCaches ==
    /\ call.op = "worker"
    /\ ~call.built
    /\ call' = [call EXCEPT
                   !.built = TRUE,
                   !.day_caches =
                       _build_day_caches(
                           call.stock_data, call.stock_data.opening_ranges[1],
                           2, call.group_params[1].exit_time)]
    /\ UNCHANGED <<cfgVars, dbVars, pc, idVars, localVars, poolVars,
                   obsVars, histVars, dlVars, ret>>

\* Faulty variant: a run consumes the first day cache of the shared list.
WorkerRunParams_consumesCache ==
    /\ call.op = "worker"
    /\ call.built
    /\ LET done == IF ret = NoCall THEN 0 ELSE ret.done
       IN  /\ done < Len(call.group_params)
           /\ ret' = [done |-> done + 1,
                      strategy_params |-> call.group_params[done + 1],
                      trades |->
                          run_with_caches(call.sim,
                                          call.stock_data.daily_atr,
                                          call.group_params[done + 1],
                                          call.stock_data.opening_ranges[1],
                                          call.day_caches)]
    /\ call' = [call EXCEPT !.day_caches =
                                IF @ = <<>> THEN @ ELSE Tail(@)]
    /\ UNCHANGED <<cfgVars, dbVars, pc, idVars, localVars, poolVars,
                   obsVars, histVars, dlVars>>

\* simulator.run_with_caches for the group's next parameter set, on the
\* shared caches.
WorkerRunParams ==
    /\ call.op = "worker"
    /\ call.built
    /\ LET done == IF ret = NoCall THEN 0 ELSE ret.done
       IN  /\ done < Len(call.group_params)
           /\ ret' = [done |-> done + 1,
                      strategy_params |-> call.group_params[done + 1],
                      trades |->
                          run_with_caches(call.sim,
                                          call.stock_data.daily_atr,
                                          call.group_params[done + 1],
                                          call.stock_data.opening_ranges[1],
                                          call.day_caches)]
    /\ UNCHANGED <<cfgVars, dbVars, pc, idVars, localVars, poolVars,
                   obsVars, histVars, dlVars, call>>

WorkerNext == WorkerBuildCaches \/ WorkerRunParams

WorkerSpec == WorkerInit /\ [][WorkerNext]_vars

\* C21: a resume invocation that finds every instrument of the run
\* completed ends with the run's status set to 'completed', also when the
\* run was interrupted between its last mark_stock_complete and the final
\* status update.
C21_ResumeCompletesRun ==
    (pc = "returned" /\ retval = "already_complete") =>
        runs[1].status = "completed"

\* C22: with store_trades on, a completed run holds each simulated trade
\* (run_id, param_id, instrument, day) exactly once in backtest_trades,
\* whatever interrupts, kills and resumes came before.
C22_TradesExactlyOnce ==
    (store_trades /\ Len(runs) >= 1 /\ runs[1].status = "completed") =>
        \A s \in Range(stocks) :
            \A i \in 1..Len(Payload(s).trade_rows) :
                CopiesIn(<<1>> \o Payload(s).trade_rows[i], trades) = 1

\* C23: every progress update of backtest_runs (the update after an
\* instrument in serial and in parallel mode, and the final one) leaves
\* stocks_completed equal to the number of the run's progress rows with
\* status 'completed'.
C23_StocksCompletedMatchesProgress ==
    [][(pc \in {"ser_update", "par_update", "run_complete"} /\ runs' # runs) =>
          (runs'[run_id].stocks_completed =
              Cardinality({i \in ProgressOf(progress', run_id) :
                              progress'[i].status = "completed"}))]_vars

\* C24: entry selection.  The side _find_entry chooses is admissible under
\* trade_direction (so is the side of every trade of run_with_caches); with
\* both sides admissible and both precomputed indices >= 0 the side with the
\* smaller index is chosen, LONG on an equal index; with neither index >= 0
\* there is no entry.
C24_EntrySelection ==
    /\ (call.op = "_find_entry" /\ ret # NoCall) =>
          LET dc == call.dc
              ec == call.confirmation
              td == call.trade_direction
              l == IF ec = "immediate" THEN dc.first_long_imm_idx
                   ELSE IF ec = "candle_close" THEN dc.first_long_close_idx
                   ELSE dc.first_long_vol_idx
              s == IF ec = "immediate" THEN dc.first_short_imm_idx
                   ELSE IF ec = "candle_close" THEN dc.first_short_close_idx
                   ELSE dc.first_short_vol_idx
          IN  /\ ret.direction = "LONG" => td \in {"long_only", "both"}
              /\ ret.direction = "SHORT" => td \in {"short_only", "both"}
              /\ (td = "both" /\ l >= 0 /\ s >= 0) =>
                    IF l <= s
                    THEN ret.direction = "LONG" /\ ret.entry_idx = l
                    ELSE ret.direction = "SHORT" /\ ret.entry_idx = s
              /\ (l < 0 /\ s < 0) => ret.direction = "None"
    /\ (call.op = "run_with_caches" /\ ret # NoCall) =>
          \A i \in 1..Len(ret.trades) :
              /\ ret.trades[i].direction = "LONG" =>
                    call.params.trade_direction \in {"long_only", "both"}
              /\ ret.trades[i].direction = "SHORT" =>
                    call.params.trade_direction \in {"short_only", "both"}

\* Both sides are admissible and the breakout above and the breakdown below
\* the opening range fire first on the same bar: the entry is LONG, at or_high.
C24_Witness ==
    /\ call.op = "_find_entry"
    /\ call.trade_direction = "both"
    /\ call.confirmation = "immediate"
    /\ call.dc.n_candles = 3
    /\ call.dc.first_long_imm_idx = 0
    /\ call.dc.first_short_imm_idx = 0
    /\ ret # NoCall
    /\ ret.direction = "LONG"
    /\ ret.entry_price = call.or_info[1]

\* C25: same-bar tie on exit.  On the vectorized and on the trailing path,
\* when the first bar after the entry that hits the stop is also the first
\* that hits the target, the exit is a stop_loss on that bar at the stop's
\* value there; otherwise the event on the earlier bar wins.  (On the
\* trailing path the stop of a bar is the stop the ratchet has reached on it.)
C25_SameBarTieIsStopLoss ==
    (call.op = "_find_exit" /\ ret # NoCall) =>
        LET dc == call.dc
            d == call.direction
            e == call.entry_idx
            last == dc.n_candles - 1
            tp == call.target_price
            trail[i \in e..last] ==
                IF i = e
                THEN [peak |-> IF d = "LONG" THEN dc.highs[e + 1]
                                             ELSE dc.lows[e + 1],
                      sl |-> call.stop_loss]
                ELSE ratchet(d, trail[i - 1].peak, trail[i - 1].sl,
                             dc.highs[i + 1], dc.lows[i + 1],
                             call.trailing_pct)
            stop(i) == IF call.stop_loss_type = "trailing"
                       THEN trail[i].sl ELSE call.stop_loss
            StopBars == {i \in (e + 1)..last :
                            IF d = "LONG" THEN dc.lows[i + 1] <= stop(i)
                                          ELSE dc.highs[i + 1] >= stop(i)}
            TgtBars == {i \in (e + 1)..last :
                           /\ tp > 0
                           /\ IF d = "LONG" THEN dc.highs[i + 1] >= tp
                                            ELSE dc.lows[i + 1] <= tp}
            First(B) == CHOOSE i \in B : \A j \in B : i <= j
            StopAt(i) == /\ ret.exit_reason = "stop_loss"
                         /\ ret.exit_idx = i
                         /\ ret.exit_price = stop(i)
            TargetAt(i) == /\ ret.exit_reason = "target"
                           /\ ret.exit_idx = i
                           /\ ret.exit_price = tp
        IN  /\ (StopBars # {} /\ TgtBars # {}) =>
                  IF First(StopBars) <= First(TgtBars)
                  THEN StopAt(First(StopBars))
                  ELSE TargetAt(First(TgtBars))
            /\ (StopBars # {} /\ TgtBars = {}) => StopAt(First(StopBars))
            /\ (StopBars = {} /\ TgtBars # {}) => TargetAt(First(TgtBars))

\* A LONG trailing search whose stop ratchets up on the bar that also reaches
\* the target: the exit is a stop_loss at the ratcheted stop.
C25_Witness ==
    /\ call.op = "_find_exit"
    /\ call.stop_loss_type = "trailing"
    /\ call.direction = "LONG"
    /\ call.target_price > 0
    /\ ret # NoCall
    /\ ret.exit_reason = "stop_loss"
    /\ ret.exit_price > call.stop_loss
    /\ call.dc.highs[ret.exit_idx + 1] >= call.target_price
    /\ \A i \in (call.entry_idx + 1)..(ret.exit_idx - 1) :
           call.dc.highs[i + 1] < call.target_price

\* C26: an exit is never before the entry and is on a bar of the day cache; a
\* stop_loss or target exit is on a bar strictly after the entry bar, so an
\* exit on the entry bar is a time_exit.  This holds of both exit searches
\* and of every trade of run_with_caches.
C26_ExitAfterEntry ==
    /\ (call.op = "_find_exit" /\ ret # NoCall) =>
          /\ ret.exit_idx >= call.entry_idx
          /\ ret.exit_idx \in 0..(call.dc.n_candles - 1)
          /\ ret.exit_reason \in {"stop_loss", "target"} =>
                ret.exit_idx > call.entry_idx
          /\ ret.exit_idx = call.entry_idx => ret.exit_reason = "time_exit"
    /\ (call.op = "run_with_caches" /\ ret # NoCall) =>
          \A i \in 1..Len(ret.trades) :
              LET t == ret.trades[i]
              IN  /\ t.exit_idx >= t.entry_idx
                  /\ t.exit_idx \in 0..(call.day_caches[1].n_candles - 1)
                  /\ t.exit_idx = t.entry_idx => t.exit_reason = "time_exit"

\* The entry is on the last bar of a day of several bars, and that bar's own
\* low is at the LONG stop: the exit is a time_exit on the entry bar.
C26_Witness ==
    /\ call.op = "_find_exit"
    /\ call.stop_loss_type = "fixed"
    /\ call.direction = "LONG"
    /\ call.dc.n_candles >= 2
    /\ call.entry_idx = call.dc.n_candles - 1
    /\ call.dc.lows[call.entry_idx + 1] <= call.stop_loss
    /\ ret # NoCall
    /\ ret.exit_idx = call.entry_idx
    /\ ret.exit_reason = "time_exit"

\* C27: exit-reason consistency.  The reason is target, stop_loss or
\* time_exit; a target exit is at target_price; a stop_loss exit is at the
\* initial stop on the vectorized path and at sl_final on the trailing path;
\* a time_exit is at the close of the last bar of the day cache.
C27_ExitReasonConsistency ==
    /\ (call.op = "_find_exit" /\ ret # NoCall) =>
          /\ ret.exit_reason \in {"target", "stop_loss", "time_exit"}
          /\ ret.exit_reason = "target" =>
                ret.exit_price = call.target_price
          /\ ret.exit_reason = "stop_loss" =>
                IF call.stop_loss_type = "trailing"
                THEN ret.exit_price = ret.sl_final
                ELSE ret.exit_price = call.stop_loss
          /\ ret.exit_reason = "time_exit" =>
                ret.exit_price = call.dc.closes[call.dc.n_candles]
    /\ (call.op = "run_with_caches" /\ ret # NoCall) =>
          \A i \in 1..Len(ret.trades) :
              LET t == ret.trades[i]
                  dc == call.day_caches[1]
              IN  /\ t.exit_reason \in {"target", "stop_loss", "time_exit"}
                  /\ t.exit_reason = "target" =>
                        t.exit_price = t.target_price
                  /\ t.exit_reason = "stop_loss" =>
                        IF call.params.stop_loss_type = "trailing"
                        THEN t.exit_price = t.stop_loss_final
                        ELSE t.exit_price = t.stop_loss_initial
                  /\ t.exit_reason = "time_exit" =>
                        t.exit_price = dc.closes[dc.n_candles]

\* A vectorized search runs to the end of a day whose last bar closes at
\* another price than the entry bar: the exit is at the last bar's close.
C27_Witness ==
    /\ call.op = "_find_exit"
    /\ call.stop_loss_type = "fixed"
    /\ call.entry_idx < call.dc.n_candles - 1
    /\ call.dc.closes[call.entry_idx + 1] # call.dc.closes[call.dc.n_candles]
    /\ ret # NoCall
    /\ ret.exit_reason = "time_exit"
    /\ ret.exit_price = call.dc.closes[call.dc.n_candles]

\* C28: position sizing.  Every trade run_with_caches emits has a positive
\* risk per share |entry_price - stop_loss| and the positive quantity
\* min(floor(max_risk_per_trade / risk_per_share), floor(capital /
\* entry_price)), so quantity * risk_per_share <= max_risk_per_trade and
\* quantity * entry_price <= capital; a day whose candidate has a zero risk
\* per share or a quantity <= 0 has no trade.
C28_PositionSizing ==
    (call.op = "run_with_caches" /\ ret # NoCall) =>
        LET sim == call.sim
            p == call.params
            dc == call.day_caches[1]
            oi == call.or_data[1]
            \* the day's candidate, before sizing
            entry == _find_entry(dc, oi[1], oi[2], oi[3],
                                 p.entry_confirmation,
                                 p.trade_direction \in {"long_only", "both"},
                                 p.trade_direction \in {"short_only", "both"})
            atr == IF call.daily_atr = <<>> THEN 0 ELSE call.daily_atr[1]
            stop_loss == _initial_stop_loss(entry.direction,
                                            entry.entry_price, oi[1], oi[2],
                                            atr, p)
            risk == IF entry.entry_price >= stop_loss
                    THEN entry.entry_price - stop_loss
                    ELSE stop_loss - entry.entry_price
            a == sim.max_risk_per_trade \div risk
            b == sim.capital \div entry.entry_price
        IN  /\ \A i \in 1..Len(ret.trades) :
                  LET t == ret.trades[i]
                      risk_per_share ==
                          IF t.entry_price >= t.stop_loss_initial
                          THEN t.entry_price - t.stop_loss_initial
                          ELSE t.stop_loss_initial - t.entry_price
                  IN  /\ risk_per_share > 0
                      /\ t.quantity > 0
                      /\ t.quantity =
                            (IF sim.max_risk_per_trade \div risk_per_share
                                    <= sim.capital \div t.entry_price
                             THEN sim.max_risk_per_trade \div risk_per_share
                             ELSE sim.capital \div t.entry_price)
                      /\ t.quantity * risk_per_share <= sim.max_risk_per_trade
                      /\ t.quantity * t.entry_price <= sim.capital
                      /\ t.risk_amount = t.quantity * risk_per_share
            /\ (entry.direction # "None" /\ risk = 0) => ret.trades = <<>>
            /\ (entry.direction # "None" /\ risk > 0 /\ (a <= 0 \/ b <= 0)) =>
                  ret.trades = <<>>

\* A trade whose size the capital limits, below what the risk budget allows.
C28_Witness ==
    /\ call.op = "run_with_caches"
    /\ ret # NoCall
    /\ Len(ret.trades) = 1
    /\ ret.trades[1].quantity = call.sim.capital \div ret.trades[1].entry_price
    /\ ret.trades[1].quantity >= 2
    /\ 2 * ret.trades[1].risk_amount <= call.sim.max_risk_per_trade

\* C29: with trailing_stop_pct = 0 the trailing exit search returns the same
\* exit bar and the same exit reason as the vectorized search, for every day
\* cache, direction, entry index, initial stop and target.
C29_TrailingZeroEqualsFixed ==
    (call.op = "_find_exit" /\ ret # NoCall /\ call.trailing_pct = 0) =>
        LET fixed == _find_exit_vectorized(call.dc, call.direction,
                                           call.entry_idx, call.stop_loss,
                                           call.target_price)
            trailing == _find_exit_trailing(call.dc, call.direction,
                                            call.entry_idx, call.stop_loss,
                                            call.target_price, 0)
        IN  /\ trailing.exit_idx = fixed.exit_idx
            /\ trailing.exit_reason = fixed.exit_reason

\* C30: the trailing stop never loosens.  Along the bar-by-bar scan of the
\* trailing search the stop is non-decreasing for LONG and non-increasing for
\* SHORT, so sl_final >= the initial stop for LONG and <= it for SHORT, in
\* the search's result and in every trade of a trailing parameter set.
C30_TrailingStopNeverLoosens ==
    /\ (call.op = "_find_exit" /\ call.stop_loss_type = "trailing"
           /\ ret # NoCall) =>
          LET dc == call.dc
              d == call.direction
              e == call.entry_idx
              trail[i \in e..(dc.n_candles - 1)] ==
                  IF i = e
                  THEN [peak |-> IF d = "LONG" THEN dc.highs[e + 1]
                                               ELSE dc.lows[e + 1],
                        sl |-> call.stop_loss]
                  ELSE ratchet(d, trail[i - 1].peak, trail[i - 1].sl,
                               dc.highs[i + 1], dc.lows[i + 1],
                               call.trailing_pct)
          IN  /\ ret.sl_final = trail[ret.exit_idx].sl
              /\ \A i \in (e + 1)..ret.exit_idx :
                     IF d = "LONG" THEN trail[i].sl >= trail[i - 1].sl
                                   ELSE trail[i].sl <= trail[i - 1].sl
              /\ IF d = "LONG" THEN ret.sl_final >= call.stop_loss
                                ELSE ret.sl_final <= call.stop_loss
    /\ (call.op = "run_with_caches" /\ ret # NoCall
           /\ call.params.stop_loss_type = "trailing") =>
          \A i \in 1..Len(ret.trades) :
              IF ret.trades[i].direction = "LONG"
              THEN ret.trades[i].stop_loss_final
                       >= ret.trades[i].stop_loss_initial
              ELSE ret.trades[i].stop_loss_final
                       <= ret.trades[i].stop_loss_initial

\* A LONG trailing search in which a new high would put the candidate stop
\* below the stop in force: the stop stays, and is hit a bar later.
C30_Witness ==
    /\ call.op = "_find_exit"
    /\ call.stop_loss_type = "trailing"
    /\ call.trailing_pct = 50
    /\ call.direction = "LONG"
    /\ call.stop_loss = 8
    /\ call.dc.highs[call.entry_idx + 1] = 4
    /\ ret # NoCall
    /\ ret.exit_idx = call.entry_idx + 2
    /\ call.dc.highs[call.entry_idx + 2] = 12
    /\ ret.exit_reason = "stop_loss"
    /\ ret.sl_final = 8

\* C31: on the trailing path, when the stop check of a post-entry bar i is
\* made, the stop is at least peak_i * (1 - trailing_stop_pct/100) for a LONG
\* trade, peak_i the maximum high from the entry bar through bar i, and at
\* most peak_i * (1 + trailing_stop_pct/100) for a SHORT trade, peak_i the
\* minimum low.  The stop of a trade starts at _initial_stop_loss.
C31_StopTracksRunningPeak ==
    (call.op = "run_with_caches" /\ ret # NoCall
        /\ call.params.stop_loss_type = "trailing") =>
        \A n \in 1..Len(ret.trades) :
            LET t == ret.trades[n]
                dc == call.day_caches[1]
                d == t.direction
                e == t.entry_idx
                pct == call.params.trailing_stop_pct
                trail[i \in e..(dc.n_candles - 1)] ==
                    IF i = e
                    THEN [peak |-> IF d = "LONG" THEN dc.highs[e + 1]
                                                 ELSE dc.lows[e + 1],
                          sl |-> t.stop_loss_initial]
                    ELSE ratchet(d, trail[i - 1].peak, trail[i - 1].sl,
                                 dc.highs[i + 1], dc.lows[i + 1], pct)
                peak(i) ==
                    IF d = "LONG"
                    THEN CHOOSE h \in {dc.highs[j + 1] : j \in e..i} :
                             \A j \in e..i : dc.highs[j + 1] <= h
                    ELSE CHOOSE l \in {dc.lows[j + 1] : j \in e..i} :
                             \A j \in e..i : dc.lows[j + 1] >= l
            IN  \A i \in (e + 1)..t.exit_idx :
                    IF d = "LONG"
                    THEN 100 * trail[i].sl >= peak(i) * (100 - pct)
                    ELSE 100 * trail[i].sl <= peak(i) * (100 + pct)

\* C32: cache correctness.  Each of the six entry indices of every DayCache
\* is -1 or a valid index into the cache arrays; an index i >= 0 names the
\* first bar that satisfies the index's entry predicate; an index of -1 means
\* that no bar satisfies it, and the two volume-confirm indices are -1 also
\* whenever or_avg_vol <= 0.
C32_CacheIndices ==
    (call.op = "_build_day_caches" /\ ret # NoCall) =>
        \A n \in 1..Len(ret.caches) :
            LET dc == ret.caches[n]
                oi == call.or_data[dc.date_str]
                or_high == oi[1]
                or_low == oi[2]
                voluminous(i) == 2 * dc.volumes[i + 1] > 3 * oi[3]
                Hits(kind) ==
                    {i \in 0..(dc.n_candles - 1) :
                        CASE kind = 1 -> dc.highs[i + 1] > or_high
                          [] kind = 2 -> dc.lows[i + 1] < or_low
                          [] kind = 3 -> dc.closes[i + 1] > or_high
                          [] kind = 4 -> dc.closes[i + 1] < or_low
                          [] kind = 5 -> dc.closes[i + 1] > or_high
                                             /\ voluminous(i)
                          [] kind = 6 -> dc.closes[i + 1] < or_low
                                             /\ voluminous(i)}
                index == <<dc.first_long_imm_idx, dc.first_short_imm_idx,
                           dc.first_long_close_idx, dc.first_short_close_idx,
                           dc.first_long_vol_idx, dc.first_short_vol_idx>>
            IN  /\ dc.n_candles = Len(dc.highs)
                /\ \A kind \in 1..6 :
                       /\ index[kind] \in -1..(dc.n_candles - 1)
                       /\ index[kind] >= 0 =>
                              /\ index[kind] \in Hits(kind)
                              /\ \A j \in Hits(kind) : index[kind] <= j
                       /\ index[kind] = -1 =>
                              \/ Hits(kind) = {}
                              \/ kind \in {5, 6} /\ oi[3] <= 0
                       /\ (kind \in {5, 6} /\ oi[3] <= 0) => index[kind] = -1

\* A cache of three bars where the first volume-confirmed close above the
\* opening range is on the last bar, after a close above the range that the
\* volume did not confirm.
C32_Witness ==
    /\ call.op = "_build_day_caches"
    /\ ret # NoCall
    /\ Len(ret.caches) = 1
    /\ ret.caches[1].n_candles = 3
    /\ ret.caches[1].first_long_close_idx = 1
    /\ ret.caches[1].first_long_vol_idx = 2
    /\ ret.caches[1].first_short_imm_idx = 0

\* C35: ATR fallback.  On a day for which the view has no ATR value, or one
\* that is not greater than 0, an ATR_BASED parameter set uses the FIXED
\* initial stop, the opposite boundary of the opening range, and the day's
\* trade is exactly the trade of the same parameter set with stop_loss_type
\* FIXED.
C35_AtrFallbackIsFixed ==
    (call.op = "run_with_caches" /\ ret # NoCall
        /\ call.params.stop_loss_type = "atr_based"
        /\ (call.daily_atr = <<>> \/ call.daily_atr[1] <= 0)) =>
        /\ ret.trades =
              run_with_caches(call.sim, call.daily_atr,
                              [call.params EXCEPT !.stop_loss_type = "fixed"],
                              call.or_data, call.day_caches)
        /\ \A i \in 1..Len(ret.trades) :
              ret.trades[i].stop_loss_initial =
                  IF ret.trades[i].direction = "LONG"
                  THEN call.or_data[1][2] ELSE call.or_data[1][1]

\* An ATR_BASED parameter set trades LONG on a day without an ATR value,
\* with the stop at the low of the opening range.
C35_Witness ==
    /\ call.op = "run_with_caches"
    /\ call.params.stop_loss_type = "atr_based"
    /\ call.daily_atr = <<>>
    /\ ret # NoCall
    /\ Len(ret.trades) = 1
    /\ ret.trades[1].direction = "LONG"
    /\ ret.trades[1].stop_loss_initial = call.or_data[1][2]
    /\ ret.trades[1].exit_reason = "stop_loss"

\* C34: every trading day of a non-empty view has a daily ATR value, and for
\* the days with index below atr_period the value is the simple average of
\* the true ranges of the days up to and including that day, for any number
\* of trading days.
C34_EveryDayHasAtr ==
    (call.op = "_compute_daily_atr" /\ ret # NoCall) =>
        \A i \in 1..Len(call.trading_days) :
            /\ call.trading_days[i] \in DOMAIN ret.daily_atr
            /\ i - 1 < call.period =>
                  LET df(k) == call.day_groups[call.trading_days[k]][1]
                      prev(k) == df(k - 1).close
                      dist(a, b) == IF a >= b THEN a - b ELSE b - a
                      tr(k) ==
                          IF k = 1 THEN df(k).high - df(k).low
                          ELSE CHOOSE x \in {df(k).high - df(k).low,
                                             dist(df(k).high, prev(k)),
                                             dist(df(k).low, prev(k))} :
                                   /\ x >= df(k).high - df(k).low
                                   /\ x >= dist(df(k).high, prev(k))
                                   /\ x >= dist(df(k).low, prev(k))
                      total[k \in 0..i] ==
                          IF k = 0 THEN 0 ELSE total[k - 1] + tr(k)
                      v == ret.daily_atr[call.trading_days[i]]
                  IN  v.num * i = total[i] * v.den

\* C37: the Calmar ratio divides the net P&L by years * max_drawdown with
\* years = max(1, days between the first and the last trade / 365.25), so for
\* trades spanning less than a year it is net_pnl / max_drawdown; it is 0
\* when max_drawdown is 0.
C37_CalmarYearsAtLeastOne ==
    (call.op = "_compute_calmar" /\ ret # NoCall) =>
        LET n == Len(call.pnls)
            days == call.dates[n] - call.dates[1]
            net[k \in 0..n] == IF k = 0 THEN 0 ELSE net[k - 1] + call.pnls[k]
        IN  /\ call.max_dd = 0 => ret.num = 0
            /\ (call.max_dd > 0 /\ n > 0 /\ call.dates[1] # -1
                   /\ call.dates[n] # -1) =>
                  IF 4 * days <= 1461
                  THEN ret.num * call.max_dd = net[n] * ret.den
                  ELSE ret.num * 4 * days * call.max_dd
                           = net[n] * 1461 * ret.den

\* C33: cache reuse is safe.  A run of run_with_caches leaves the day caches,
\* the OR data and the view as they were, and the trade list of a parameter
\* set run on the group's shared caches, first or after other parameter sets,
\* is the list run() produces with caches of its own.
C33_CacheReuseIsSafe ==
    /\ [](ret # NoCall /\ call.op = "worker" =>
             ret.trades = run(call.sim, call.stock_data, ret.strategy_params))
    /\ [][ret' # ret => call' = call]_vars

\* The second parameter set of a group has run on the shared caches and has
\* a trade on each of the two days.
C33_Witness ==
    /\ call.op = "worker"
    /\ ret # NoCall
    /\ ret.done = 2
    /\ call.group_params[1] # call.group_params[2]
    /\ Len(ret.trades) = 2

\* C36: for one instrument and one parameter set the kernel emits at most
\* one trade per trading day, the entry and exit bars of a trade are bars of
\* that day's cache, and the trades are in strictly increasing date order.
C36_OneTradePerDayInOrder ==
    (call.op = "worker" /\ ret # NoCall) =>
        /\ \A i, j \in 1..Len(ret.trades) :
              i < j => ret.trades[i].date < ret.trades[j].date
        /\ \A i \in 1..Len(ret.trades) :
              \E k \in 1..Len(call.day_caches) :
                  /\ call.day_caches[k].date_str = ret.trades[i].date
                  /\ ret.trades[i].entry_idx
                         \in 0..(call.day_caches[k].n_candles - 1)
                  /\ ret.trades[i].exit_idx
                         \in 0..(call.day_caches[k].n_candles - 1)

\* Two trades, one on each day, the first leaving on a later bar than it
\* entered and the two leaving for different reasons.
C36_Witness ==
    /\ call.op = "worker"
    /\ ret # NoCall
    /\ Len(ret.trades) = 2
    /\ ret.trades[1].date = 1
    /\ ret.trades[2].date = 2
    /\ ret.trades[1].exit_idx > ret.trades[1].entry_idx
    /\ ret.trades[2].exit_reason # ret.trades[1].exit_reason

\* C38: for every instrument, after any sequence of download sessions,
\* download_progress.total_api_calls is the number of chunk fetches
\* performed for it; no fetch is counted twice.
C38_ApiCallsCountFetches ==
    \A s \in 1..DlStocks :
        download_progress[s].total_api_calls = dl.fetched[s]

\* A response that the loop takes for success: rows or an empty list with
\* Status 200, nothing at all in Success and Error, or an error message
\* that contains 'no data'.
C39_SuccessfulOrEmpty(response) ==
    /\ ~response.raises
    /\ \/ response.Status = 200 /\ response.Success \in {"empty", "rows"}
       \/ response.Status # 200 /\ response.Success # "None"
       \/ response.Success = "None" /\ ~response.Error.given
       \/ /\ response.Success = "None"
          /\ response.Error.given
          /\ "no data" \in response.Error.terms

\* An error message with 'invalid' or 'not found' in it.
C39_InvalidOrNotFound(response) ==
    /\ ~response.raises
    /\ response.Success = "None"
    /\ response.Error.given
    /\ response.Error.terms \cap {"invalid", "not found"} # {}

\* The parts of C39 that do not depend on what a non-retryable error is:
\* the function returns, it sends at most max_retries requests and none
\* after it has returned, it returns success at a successful or empty
\* response, it gives up only after max_retries failed attempts, and by then
\* it has slept retry_delay * 2^attempt after each attempt but the last.
C39_Common ==
    /\ <>(ret # NoCall)
    /\ [](call.requests <= call.max_retries)
    /\ [][ret # NoCall => call'.requests = call.requests]_vars
    /\ [][call'.requests # call.requests
            /\ C39_SuccessfulOrEmpty(call'.response)
            => ret' # NoCall /\ ret'.success]_vars
    /\ [](ret # NoCall /\ ret.success
            => call.requests >= 1 /\ C39_SuccessfulOrEmpty(call.response))
    /\ [](ret # NoCall /\ ret.error = {"Failed after"}
            => /\ call.requests = call.max_retries
               /\ call.sleeps =
                     [k \in 1..IF call.max_retries = 0 THEN 0
                                ELSE call.max_retries - 1 |->
                         call.retry_delay * 2 ^ (k - 1)])
    /\ [](ret # NoCall /\ ~ret.success /\ ret.error # {"Failed after"}
            => C39_InvalidOrNotFound(call.response))

\* C39 as stated: an error message with 'invalid' or 'not found' in it ends
\* the call with a failure.
C39_AsStated ==
    /\ C39_Common
    /\ [][call'.requests # call.requests
            /\ C39_InvalidOrNotFound(call'.response)
            => ret' # NoCall /\ ~ret'.success]_vars

\* C39: _fetch_chunk_with_retry terminates and sends at most max_retries
\* requests for one chunk.  It returns success at the first successful or
\* empty response, an error message with 'no data' in it counting as empty;
\* it returns failure without a further request on an error message with
\* 'invalid' or 'not found' and without 'no data' in it; otherwise it returns
\* failure after max_retries failed attempts, having slept
\* retry_base_delay * 2^attempt between attempts and not after the last one.
C39_FetchTerminatesWithinRetries ==
    /\ C39_Common
    /\ [][call'.requests # call.requests
            /\ C39_InvalidOrNotFound(call'.response)
            /\ "no data" \notin call'.response.Error.terms
            => ret' # NoCall /\ ~ret'.success]_vars

\* Three attempts have failed, with sleeps of the base delay and of twice the
\* base delay between them, and the function has given up.
C39_Witness ==
    /\ call.op = "_fetch_chunk_with_retry"
    /\ ret # NoCall
    /\ ret.error = {"Failed after"}
    /\ call.requests = 3
    /\ call.sleeps = <<2, 4>>

====
